---- MODULE Spec2Model ----
(***************************************************************************)
(* Model of the batch price-update engine of sedori-auto.                  *)
(*                                                                         *)
(*   Spec    MorimoriPCSystem (src/morimori_pc_system.py): the process     *)
(*           life cycle (__init__, run_update, a kill of the process),     *)
(*           the retry loop of search_by_jan_code, the ledger and the      *)
(*           progress file.                                                *)
(*   SpecV2  MorimoriPriceScraperV2 (src/morimori_price_scraper_v2.py):    *)
(*           run, scrape_price, make_request, update_spreadsheet.          *)
(*                                                                         *)
(* Time is counted in ticks of 100 ms, the smallest sleep of the code.     *)
(* The source's Japanese literals are written in ASCII: "YEN" is the yen   *)
(* glyph, "EN" the unit word yen, "JOGEN" the word for upper limit,        *)
(* "NAMI" the range dash, "-" the failure marker of run_update.            *)
(***************************************************************************)
EXTENDS Integers, Sequences, FiniteSets, TLC

(* ------------------------------ bounds ------------------------------ *)

\* data rows of the ledger below the header row
MaxRows == 2
\* launches of the process (one run_update each)
MaxRuns == 2

(* ------------------------- program constants ------------------------ *)

\* search_by_jan_code: max_retries = 3
max_retries == 3
\* search_by_jan_code: wait_time = (2 ** retry) * 2 seconds, in ticks
RateLimitBase == 20
\* search_by_jan_code: time.sleep(2 * (retry + 1)) seconds, in ticks
ErrorBackoffBase == 20
\* run_update: time.sleep(0.1) after each row write, in ticks
WriteSleep == 1
\* run_update: time.sleep(2) between batches, in ticks
BatchRest == 20
\* run_update: len(str(row[0])) >= 10
MinJanLen == 10
\* run_update: delay_ms / 1000.0 seconds is delay_ms / 100 ticks
MsPerTick == 100

(* ------------------------------ helpers ----------------------------- *)

Min(a, b) == IF a < b THEN a ELSE b

Max(a, b) == IF a > b THEN a ELSE b

RECURSIVE Pow2(_)
Pow2(n) == IF n = 0 THEN 1 ELSE 2 * Pow2(n - 1)

\* Python's s[:m] for a list s and an integer m (negative m counts from the end)
SliceTo(s, m) ==
    IF m >= 0 THEN SubSeq(s, 1, Min(m, Len(s)))
    ELSE SubSeq(s, 1, Max(0, Len(s) + m))

\* the decimal digits of n >= 0, most significant first, one character each
RECURSIVE Digits(_)
Digits(n) ==
    IF n < 10 THEN <<ToString(n)>>
    ELSE Digits(n \div 10) \o <<ToString(n % 10)>>

\* faulty variant of Thousands: the groups after the first are not padded
\* to three digits
RECURSIVE ThousandsNoPad(_)
ThousandsNoPad(n) ==
    IF n < 1000 THEN Digits(n)
    ELSE ThousandsNoPad(n \div 1000) \o <<",">> \o Digits(n % 1000)

\* Python's format(n, ","): the digits of n in groups of three from the right
RECURSIVE Thousands(_)
Thousands(n) ==
    IF n < 1000 THEN Digits(n)
    ELSE Thousands(n \div 1000) \o <<",">>
         \o <<ToString((n % 1000) \div 100), ToString((n % 100) \div 10),
              ToString(n % 10)>>

\* faulty variant of price_value: a failed item leaves the price cell empty
price_value_blank(price) ==
    IF price # 0 THEN <<"YEN">> \o Thousands(price) ELSE <<>>

\* run_update: f"YEN{price:,}" if price else '-' (a price of None or 0 is falsy)
price_value(price) ==
    IF price # 0 THEN <<"YEN">> \o Thousands(price) ELSE <<"-">>

(* ----------------------- parse_search_results ----------------------- *)

(* A page is the sequence of its labelled price phrases, in page order.   *)
(* A phrase is  label colon mid digits EN tail :                          *)
(*   label  "TSUJO" (tsujo kaitori kakaku), "KAITORI" (kaitori kakaku),   *)
(*          "KAKAKU" (kakaku); each later label is a suffix of the former *)
(*   colon  "ascii", "wide", or "none" (no colon after the label)         *)
(*   mid    the text between the colon and the digits: "" (at most white  *)
(*          space), "JOGEN" or "NAMI"                                     *)
(*   n      the number the digits spell                                   *)
(*   tail   what follows EN: "" or "NAMI" (the range dash and the upper   *)
(*          price of a range)                                             *)
Labels == {"TSUJO", "KAITORI", "KAKAKU"}

Phrase(label, colon, mid, n) ==
    [label |-> label, colon |-> colon, mid |-> mid, n |-> n, tail |-> ""]

\* the phrase e as the lower price of a range: e, the range dash, a price
RangeFrom(e) == [e EXCEPT !.tail = "NAMI"]

\* the four regular expressions of parse_search_results, in their order
Patterns == <<1, 2, 3, 4>>

\* whether patterns[p] matches inside phrase e
Matches(p, e) ==
    CASE p = 1 -> e.label = "TSUJO" /\ e.colon = "ascii" /\ e.mid = ""
      [] p = 2 -> e.label = "TSUJO"
      [] p = 3 -> e.label \in {"TSUJO", "KAITORI"} /\ e.colon # "none" /\ e.mid = ""
      [] OTHER -> e.colon # "none" /\ e.mid = ""

\* re.search: the leftmost phrase of the page that patterns[p] matches, 0 if none
FirstMatch(p, page) ==
    IF \E k \in 1..Len(page) : Matches(p, page[k])
    THEN CHOOSE k \in 1..Len(page) :
            Matches(p, page[k]) /\ \A j \in 1..(k - 1) : ~Matches(p, page[j])
    ELSE 0

\* 'JOGEN' in match.group(0) or 'NAMI' in match.group(0): the matched text
\* runs from the label to EN, so it holds the phrase's mid and not its tail
Disqualified(p, e) == e.mid \in {"JOGEN", "NAMI"}

RECURSIVE ParseFrom(_, _)
ParseFrom(p, page) ==
    IF p > Len(Patterns) THEN 0
    ELSE LET k == FirstMatch(p, page) IN
         IF k # 0 /\ ~Disqualified(p, page[k]) /\ page[k].n > 0
         THEN page[k].n
         ELSE ParseFrom(p + 1, page)

\* the price of {'new_price': price}, or 0 for None
parse_search_results(page) == ParseFrom(1, page)

(* ------------------------- search_by_jan_code ------------------------ *)

\* the pages the site answers a search with
SearchPages ==
    { <<>>, <<Phrase("TSUJO", "wide", "", 9800)>> }

\* what session.get does: a response with a status, or an exception
Responses ==
    { [kind |-> "response", status |-> 200, page |-> pg] : pg \in SearchPages }
    \cup { [kind |-> "response", status |-> st, page |-> <<>>] : st \in {429, 404} }
    \cup { [kind |-> "exception", status |-> 0, page |-> <<>>] }

\* faulty variant of Attempt: every status but 200 is retried after the backoff
AttemptRetryAll(rt, r) ==
    IF r.kind = "response"
    THEN IF r.status = 200
         THEN [done |-> TRUE, value |-> parse_search_results(r.page), wait |-> 0]
         ELSE [done |-> FALSE, value |-> 0, wait |-> Pow2(rt) * RateLimitBase]
    ELSE IF rt = max_retries - 1
         THEN [done |-> TRUE, value |-> 0, wait |-> 0]
         ELSE [done |-> FALSE, value |-> 0, wait |-> ErrorBackoffBase * (rt + 1)]

\* faulty variant of Attempt: an exception is followed by its backoff at every
\* attempt, the last one too
AttemptSleepsAfterLast(rt, r) ==
    IF r.kind = "response"
    THEN IF r.status = 200
         THEN [done |-> TRUE, value |-> parse_search_results(r.page), wait |-> 0]
         ELSE IF r.status = 429
         THEN [done |-> FALSE, value |-> 0, wait |-> Pow2(rt) * RateLimitBase]
         ELSE [done |-> TRUE, value |-> 0, wait |-> 0]
    ELSE [done |-> FALSE, value |-> 0, wait |-> ErrorBackoffBase * (rt + 1)]

\* One pass of the body of "for retry in range(max_retries)" on response r:
\*   done   the call returns in this pass (a return statement is reached)
\*   value  the value returned (0 for None) when done
\*   wait   the ticks slept in this pass
Attempt(rt, r) ==
    IF r.kind = "response"
    THEN IF r.status = 200
         THEN [done |-> TRUE, value |-> parse_search_results(r.page), wait |-> 0]
         ELSE IF r.status = 429
         THEN [done |-> FALSE, value |-> 0, wait |-> Pow2(rt) * RateLimitBase]
         ELSE [done |-> TRUE, value |-> 0, wait |-> 0]
    ELSE IF rt = max_retries - 1
         THEN [done |-> TRUE, value |-> 0, wait |-> 0]
         ELSE [done |-> FALSE, value |-> 0, wait |-> ErrorBackoffBase * (rt + 1)]

(* ---------------------------- environment --------------------------- *)

\* identifier cells: empty, too short, a well-formed JAN code
JanChoices == {"", "12345", "4901234567894"}

\* the C cell of a row that was never written
Blank == <<>>

Row(id) == [B |-> id, C |-> Blank, D |-> "", E |-> ""]

\* the identifier cell of the header row: a title, here one that is as long
\* as an identifier (11 characters); run_update never reads it
HeaderChoices == {"JAN_CODE_13"}

\* a ledger: the header row, then MaxRows data rows, no result written yet
Ledgers ==
    { <<Row(h)>> \o ids :
        h \in HeaderChoices, ids \in [1..MaxRows -> {Row(id) : id \in JanChoices}] }

\* config.json: the defaults of load_config with delay_ms, batch_size and
\* max_execution_time as the operator set them (max_execution_time in ticks)
Configs ==
    { [batch_size |-> 2, delay_ms |-> 1500, max_execution_time |-> 40],
      [batch_size |-> 1, delay_ms |-> 1500, max_execution_time |-> 21],
      [batch_size |-> 2, delay_ms |-> -1, max_execution_time |-> 3000] }

\* the values of --max-items; 0 - 1 stands for None (the option not given)
None == 0 - 1

MaxItemsChoices == {None, 0, 1}

\* progress.json does not exist
NoFile == [exists |-> FALSE]

(* ------------------------------- state ------------------------------ *)

VARIABLES
    config,         \* self.config as load_config read it
    ledger,         \* the sheet: ledger[r] is row r, columns B..E
    persisted,      \* progress.json
    sheets_service, \* self.sheets_service is not None
    progress,       \* self.progress
    pc,             \* where the process is
    runs,           \* launches of the process so far
    clock,          \* time.time(), in ticks since the launch
    max_items,      \* run_update's argument
    valid_items,    \* run_update's local
    start_time,     \* run_update's local
    current_index,  \* run_update's local
    batch_end,      \* run_update's local
    results,        \* run_update's local
    wpos,           \* results already handed to update_sheet_data in this flush
    retry,          \* search_by_jan_code's loop variable
    price_data,     \* what search_by_jan_code returned
    loaded,         \* history: is_running and current_index on entry of run_update
    fetched,        \* history: indices of the items searched in this run
    requests,       \* history: session.get calls of the current search
    waits,          \* history: the sleeps of the current search, in order
    resps,          \* history: what each session.get of the current search did
    failed,         \* history: the items whose every session.get raised, this run
    writes,         \* history: the update_sheet_data calls of this run
    stopped,        \* history: the loop was left by the time-limit break
    outcome         \* history: how run_update returned

sysvars == <<config, ledger, persisted, sheets_service, progress, pc, runs, clock,
          max_items, valid_items, start_time, current_index, batch_end, results,
          wpos, retry, price_data, loaded, fetched, requests, waits, resps,
          failed, writes, stopped, outcome>>

env == <<config, ledger, persisted, runs>>

locals == <<max_items, valid_items, start_time, current_index, batch_end, results,
            wpos, retry, price_data>>

history == <<loaded, fetched, requests, waits, resps, failed, writes, stopped,
             outcome>>

(* MorimoriPriceScraperV2: the state of one run() *)
VARIABLES
    v_sheet,        \* the worksheet: v_sheet[r] is row r, columns B..E
    v_pc,           \* where run() is
    v_jan_codes,    \* run's local: the (row, jan_code) pairs
    v_pos,          \* the pair the for loop of run is at, from 1
    v_target,       \* the url make_request was called with: "search" or "detail"
    v_attempt,      \* make_request's loop variable
    v_soup,         \* what make_request returned
    v_result,       \* what scrape_price returned
    v_success,      \* run's success_count
    v_fail,         \* run's fail_count
    v_resps,        \* history: what each requests.get of the current call did
    v_waits,        \* history: the sleeps of the current make_request call
    v_pages,        \* history: pages fetched for the current item
    v_updates       \* history: the update_spreadsheet calls of the run

v2vars == <<v_sheet, v_pc, v_jan_codes, v_pos, v_target, v_attempt, v_soup,
            v_result, v_success, v_fail, v_resps, v_waits, v_pages, v_updates>>

(* update_spreadsheet, the all-rows updater that follows the class in      *)
(* src/morimori_price_scraper_v2.py: the state of one call                 *)
VARIABLES
    p_sheet,        \* the worksheet: p_sheet[r] is row r, columns B..D
    p_pc,           \* where update_spreadsheet is
    p_index,        \* row_index, the loop variable (row_number is row_index + 1)
    p_price,        \* what search_and_get_price returned
    p_processed,    \* processed_count
    p_success,      \* success_count
    p_error,        \* error_count
    p_looked,       \* history: the row numbers search_and_get_price was called for
    p_calls,        \* history: the update_cell calls, in order
    p_end           \* history: how the call ended

psvars == <<p_sheet, p_pc, p_index, p_price, p_processed, p_success, p_error,
            p_looked, p_calls, p_end>>

(* update_spreadsheet_with_jan_codes (src/mobile_ichiban_scraper.py): the  *)
(* state of one call                                                       *)
VARIABLES
    x_book,         \* the workbook in memory: x_book[r] is row r, columns H, G, I
    x_file,         \* the workbook file on disk
    x_pc,           \* where update_spreadsheet_with_jan_codes is
    x_row,          \* row_num, the loop variable
    x_products,     \* what search_by_jan returned
    x_sets          \* history: the assignments to price_cell.value, in order

exvars == <<x_book, x_file, x_pc, x_row, x_products, x_sets>>

(* one call of a function that reads no state of its object:              *)
(* parse_search_results, the price formatters and parsers,                 *)
(* the price selection of search_and_get_price                             *)
VARIABLES
    f_pc,           \* "off", "called" (the argument is bound), "returned"
    f_in,           \* the argument
    f_out           \* the value returned

fnvars == <<f_pc, f_in, f_out>>

(* PriceUpdateScheduler: the state of start_scheduler; the time is counted  *)
(* in half days: 2d is day d before 09:00, 2d + 1 is day d from 09:00 on    *)
VARIABLES
    s_pc,           \* where start_scheduler is
    s_start,        \* the weekday of day 0 (0 is Monday)
    s_now,          \* the time
    s_next,         \* next_run of the two jobs
    s_job,          \* the caller of run_price_update: "initial", "day", "monday"
    s_queue,        \* run_pending: the runnable jobs still to run
    s_active,       \* the update runs under way
    s_result,       \* how the last run_price_update ended
    s_runs          \* the calls of run_price_update: the job and the 09:00 it was due at

schedvars == <<s_pc, s_start, s_now, s_next, s_job, s_queue, s_active, s_result, s_runs>>

\* the variables of the programs other than the one an action belongs to
besides_sys == <<v2vars, psvars, exvars, fnvars, schedvars>>

besides_v2 == <<sysvars, psvars, exvars, fnvars, schedvars>>

besides_ps == <<sysvars, v2vars, exvars, fnvars, schedvars>>

besides_ex == <<sysvars, v2vars, psvars, fnvars, schedvars>>

besides_fn == <<sysvars, v2vars, psvars, exvars, schedvars>>

besides_sched == <<sysvars, v2vars, psvars, exvars, fnvars>>

vars == <<sysvars, v2vars, psvars, exvars, fnvars, schedvars>>

\* make_request and scrape_price return None
NoSoup == [kind |-> "none"]

NoResult == [found |-> FALSE, price |-> "", url |-> ""]

\* a sheet with only its header row
EmptySheet == <<[B |-> "JAN", C |-> "", D |-> "", E |-> ""]>>

\* the scraper before run() is called
V2Idle ==
    /\ v_sheet = EmptySheet
    /\ v_pc = "off"
    /\ v_jan_codes = <<>>
    /\ v_pos = 0
    /\ v_target = "search"
    /\ v_attempt = 0
    /\ v_soup = NoSoup
    /\ v_result = NoResult
    /\ v_success = 0
    /\ v_fail = 0
    /\ v_resps = <<>>
    /\ v_waits = <<>>
    /\ v_pages = 0
    /\ v_updates = <<>>

\* the all-rows updater before update_spreadsheet is called
PsIdle ==
    /\ p_sheet = <<>>
    /\ p_pc = "off"
    /\ p_index = 0
    /\ p_price = ""
    /\ p_processed = 0
    /\ p_success = 0
    /\ p_error = 0
    /\ p_looked = <<>>
    /\ p_calls = <<>>
    /\ p_end = "none"

\* the Excel updater before update_spreadsheet_with_jan_codes is called
ExIdle ==
    /\ x_book = <<>>
    /\ x_file = <<>>
    /\ x_pc = "off"
    /\ x_row = 0
    /\ x_products = <<>>
    /\ x_sets = <<>>

\* the scheduler has not been started
SchedIdle ==
    /\ s_pc = "off"
    /\ s_start = 0
    /\ s_now = 0
    /\ s_next = [j \in {"day", "monday"} |-> 0]
    /\ s_job = "none"
    /\ s_queue = <<>>
    /\ s_active = 0
    /\ s_result = "none"
    /\ s_runs = <<>>

\* no function call is under way
FnIdle ==
    /\ f_pc = "off"
    /\ f_in = <<>>
    /\ f_out = <<>>

\* load_progress: the defaults
DefaultProgress ==
    [current_index |-> 0, total_count |-> 0, processed_count |-> 0,
     success_count |-> 0, error_count |-> 0, is_running |-> FALSE,
     completion_rate |-> 0]

\* load_progress: the defaults, updated with the saved file if there is one
\* (start_time, last_update and end_time are time stamps no decision reads;
\* they are left out of the record)
load_progress(file) ==
    IF file.exists THEN file.progress ELSE DefaultProgress

\* save_progress: json.dump(self.progress) to progress.json
save_progress(p) == [exists |-> TRUE, progress |-> p]

\* what a resume would read from the loaded progress
Resumable(p) == [is_running |-> p.is_running, current_index |-> p.current_index]

\* the locals and the history of a process that is not inside run_update
Fresh ==
    /\ max_items = None
    /\ valid_items = <<>>
    /\ start_time = 0
    /\ current_index = 0
    /\ batch_end = 0
    /\ results = <<>>
    /\ wpos = 0
    /\ retry = 0
    /\ price_data = 0
    /\ loaded = Resumable(DefaultProgress)
    /\ fetched = <<>>
    /\ requests = 0
    /\ waits = <<>>
    /\ resps = <<>>
    /\ failed = {}
    /\ writes = <<>>
    /\ stopped = FALSE
    /\ outcome = "none"

Init ==
    /\ config \in Configs
    /\ ledger \in Ledgers
    /\ persisted = NoFile
    /\ sheets_service = FALSE
    /\ progress = DefaultProgress
    /\ pc = "new"
    /\ runs = 0
    /\ clock = 0
    /\ Fresh
    /\ V2Idle
    /\ PsIdle
    /\ ExIdle
    /\ FnIdle
    /\ SchedIdle

(* ------------------------------ __init__ ---------------------------- *)

\* __init__: init_google_sheets succeeds or leaves sheets_service None,
\* then load_progress
Construct ==
    /\ pc = "new"
    /\ runs < MaxRuns
    /\ runs' = runs + 1
    /\ sheets_service' \in BOOLEAN
    /\ progress' = load_progress(persisted)
    /\ pc' = "idle"
    /\ UNCHANGED <<config, ledger, persisted, clock, locals, history>>
    /\ UNCHANGED besides_sys

(* ----------------------------- run_update --------------------------- *)

\* faulty variant of ResetProgress: the counters of the loaded progress stay
ResetProgressKeepCounts(p) ==
    [p EXCEPT !.current_index = 0, !.is_running = TRUE]

\* run_update, the progress reset at its head
ResetProgress(p) ==
    [p EXCEPT !.current_index = 0, !.processed_count = 0, !.success_count = 0,
              !.error_count = 0, !.is_running = TRUE]

Start ==
    /\ pc = "idle"
    /\ \E m \in MaxItemsChoices : max_items' = m
    /\ loaded' = Resumable(progress)
    /\ progress' = ResetProgress(progress)
    /\ pc' = "read"
    /\ UNCHANGED <<env, sheets_service, clock, valid_items, start_time,
                   current_index, batch_end, results, wpos, retry, price_data,
                   fetched, requests, waits, resps, failed, writes, stopped,
                   outcome>>
    /\ UNCHANGED besides_sys

\* the Sheets API leaves out the empty rows that end the range
RECURSIVE TrimRows(_)
TrimRows(rows) ==
    IF rows # <<>> /\ rows[Len(rows)].B = "" /\ rows[Len(rows)].C = Blank
    THEN TrimRows(SubSeq(rows, 1, Len(rows) - 1))
    ELSE rows

\* get_sheet_data("B:E"): [] without a service or when the request raises
get_sheet_data(ok) ==
    IF sheets_service /\ ok THEN TrimRows(ledger) ELSE <<>>

\* faulty variant of ValidItems: every row with an identifier is a work item
RECURSIVE ValidItemsAnyLength(_, _)
ValidItemsAnyLength(data, i) ==
    IF i > Len(data) THEN <<>>
    ELSE IF data[i].B # ""
         THEN <<[row_index |-> i, jan_code |-> data[i].B]>>
              \o ValidItemsAnyLength(data, i + 1)
         ELSE ValidItemsAnyLength(data, i + 1)

\* run_update: the rows of data[1:] with a cell of length >= 10, numbered from 2
RECURSIVE ValidItems(_, _)
ValidItems(data, i) ==
    IF i > Len(data) THEN <<>>
    ELSE IF data[i].B # "" /\ Len(data[i].B) >= MinJanLen
         THEN <<[row_index |-> i, jan_code |-> data[i].B]>> \o ValidItems(data, i + 1)
         ELSE ValidItems(data, i + 1)

\* run_update: "if max_items: valid_items = valid_items[:max_items]"
\* (None and 0 are both falsy)
Cap(items, m) ==
    IF m # None /\ m # 0 THEN SliceTo(items, m) ELSE items

ReadLedger ==
    /\ pc = "read"
    /\ \E ok \in BOOLEAN :
        LET data == get_sheet_data(ok)
            items == Cap(ValidItems(data, 2), max_items)
        IN IF Len(data) < 2
           THEN /\ outcome' = "no_data"
                /\ pc' = "returned"
                /\ UNCHANGED <<progress, valid_items, start_time>>
           ELSE /\ valid_items' = items
                /\ progress' = [progress EXCEPT !.total_count = Len(items)]
                /\ IF Len(items) = 0
                   THEN /\ outcome' = "no_items"
                        /\ pc' = "returned"
                        /\ UNCHANGED start_time
                   ELSE /\ start_time' = clock
                        /\ pc' = "loop"
                        /\ UNCHANGED outcome
    /\ UNCHANGED <<env, sheets_service, clock, max_items, current_index, batch_end,
                   results, wpos, retry, price_data, loaded, fetched, requests,
                   waits, resps, failed, writes, stopped>>
    /\ UNCHANGED besides_sys

\* run_update, the head of the while loop: the loop ends, the time limit
\* breaks it, or the next batch is cut out
TimeLimitHit(elapsed) == elapsed > config.max_execution_time

LoopCheck ==
    /\ pc = "loop"
    /\ IF current_index < Len(valid_items)
       THEN IF TimeLimitHit(clock - start_time)
            THEN /\ stopped' = TRUE
                 /\ pc' = "finish"
                 /\ UNCHANGED <<batch_end, results>>
            ELSE /\ batch_end' = Min(current_index + config.batch_size, Len(valid_items))
                 /\ results' = <<>>
                 /\ pc' = "item"
                 /\ UNCHANGED stopped
       ELSE /\ pc' = "finish"
            /\ UNCHANGED <<batch_end, results, stopped>>
    /\ UNCHANGED <<env, sheets_service, progress, clock, max_items, valid_items,
                   start_time, current_index, wpos, retry, price_data, loaded,
                   fetched, requests, waits, resps, failed, writes, outcome>>
    /\ UNCHANGED besides_sys

\* faulty variant of ItemIndex: every batch starts again at the first item
ItemIndexFromZero == Len(results)

\* the index in valid_items of the item the batch loop is at
ItemIndex == current_index + Len(results)

\* run_update calls process_single_item, which calls search_by_jan_code
BeginItem ==
    /\ pc = "item"
    /\ fetched' = Append(fetched, ItemIndex)
    /\ retry' = 0
    /\ requests' = 0
    /\ waits' = <<>>
    /\ resps' = <<>>
    /\ pc' = "request"
    /\ UNCHANGED <<env, sheets_service, progress, clock, max_items, valid_items,
                   start_time, current_index, batch_end, results, wpos, price_data,
                   loaded, failed, writes, stopped, outcome>>
    /\ UNCHANGED besides_sys

\* what a session.get did, as a number: the status, or 0 for an exception
Outcome(r) == IF r.kind = "response" THEN r.status ELSE 0

\* every session.get of the search raised (a timeout, a connection error)
AllRaised(rs) == \A k \in 1..Len(rs) : rs[k] = 0

\* faulty variant of Returns: the retry loop ends only by a return statement
ReturnsWhenDone(rt, a) == a.done

\* search_by_jan_code returns after the pass a of retry rt: by a return
\* statement, or by the loop running out ("return None" after it, whose value
\* 0 the pass already carries)
Returns(rt, a) == a.done \/ rt + 1 >= max_retries

\* search_by_jan_code: one pass of the retry loop
Request ==
    /\ pc = "request"
    /\ \E r \in Responses :
        LET a == Attempt(retry, r) IN
        /\ resps' = Append(resps, Outcome(r))
        /\ failed' = IF Returns(retry, a) /\ AllRaised(Append(resps, Outcome(r)))
                     THEN failed \cup {ItemIndex} ELSE failed
        /\ requests' = requests + 1
        /\ clock' = clock + a.wait
        /\ waits' = IF a.wait > 0 THEN Append(waits, a.wait) ELSE waits
        /\ IF Returns(retry, a)
           THEN /\ price_data' = a.value
                /\ pc' = "got"
                /\ UNCHANGED retry
           ELSE /\ retry' = retry + 1
                /\ pc' = "request"
                /\ UNCHANGED price_data
    /\ UNCHANGED <<env, sheets_service, progress, max_items, valid_items,
                   start_time, current_index, batch_end, results, wpos, loaded,
                   fetched, writes, stopped, outcome>>
    /\ UNCHANGED besides_sys

\* process_single_item: the result built from what the search returned
\* (price None is 0; updated_at is a time stamp no decision reads: "now")
process_single_item(item, data) ==
    [row_index |-> item.row_index, jan_code |-> item.jan_code,
     price |-> IF data # 0 THEN data ELSE 0, updated_at |-> "now"]

\* faulty variant of Count: only an item with a price counts as processed
CountSuccessOnly(p, result) ==
    IF result.price # 0
    THEN [p EXCEPT !.processed_count = @ + 1, !.success_count = @ + 1]
    ELSE [p EXCEPT !.error_count = @ + 1]

\* run_update: the counters after one result
Count(p, result) ==
    IF result.price # 0
    THEN [p EXCEPT !.processed_count = @ + 1, !.success_count = @ + 1]
    ELSE [p EXCEPT !.processed_count = @ + 1, !.error_count = @ + 1]

\* run_update: the result is appended and counted; the item delay follows
\* unless the item is the last of its batch
EndItem ==
    /\ pc = "got"
    /\ LET result == process_single_item(valid_items[ItemIndex + 1], price_data) IN
        /\ results' = Append(results, result)
        /\ progress' = Count(progress, result)
    /\ IF ItemIndex + 1 < batch_end
       THEN pc' = "delay" /\ UNCHANGED wpos
       ELSE pc' = "flush" /\ wpos' = 0
    /\ retry' = 0
    /\ price_data' = 0
    /\ requests' = 0
    /\ waits' = <<>>
    /\ resps' = <<>>
    /\ UNCHANGED <<env, sheets_service, clock, max_items, valid_items, start_time,
                   current_index, batch_end, loaded, fetched, failed, writes,
                   stopped, outcome>>
    /\ UNCHANGED besides_sys

\* faulty variant of ItemDelay: the time limit is looked at after the sleep
\* and breaks the batch off
ItemDelayChecksTime ==
    /\ pc = "delay"
    /\ IF config.delay_ms < 0
       THEN pc' = "except" /\ UNCHANGED <<clock, stopped>>
       ELSE /\ clock' = clock + (config.delay_ms \div MsPerTick)
            /\ IF clock' - start_time > config.max_execution_time
               THEN pc' = "finish" /\ stopped' = TRUE
               ELSE pc' = "item" /\ UNCHANGED stopped
    /\ UNCHANGED <<env, sheets_service, progress, locals, loaded, fetched,
                   requests, waits, resps, failed, writes, outcome>>
    /\ UNCHANGED besides_sys

\* run_update: time.sleep(self.delay_ms / 1000.0); a negative value makes
\* time.sleep raise ValueError, which only run_update's handler catches
ItemDelay ==
    /\ pc = "delay"
    /\ IF config.delay_ms < 0
       THEN pc' = "except" /\ UNCHANGED clock
       ELSE pc' = "item" /\ clock' = clock + (config.delay_ms \div MsPerTick)
    /\ UNCHANGED <<env, sheets_service, progress, locals, history>>
    /\ UNCHANGED besides_sys

\* faulty variant of update_sheet_data: the range starts at column B
update_sheet_data_from_B(sheet, result, ok) ==
    IF ok
    THEN [sheet EXCEPT ![result.row_index] =
            [@ EXCEPT !.B = result.updated_at, !.C = price_value(result.price),
                      !.D = result.updated_at, !.E = result.jan_code]]
    ELSE sheet

\* update_sheet_data("C{row}:E{row}", [[price, date, link]]): the three cells
\* are written when the request succeeds
update_sheet_data(sheet, result, ok) ==
    IF ok
    THEN [sheet EXCEPT ![result.row_index] =
            [@ EXCEPT !.C = price_value(result.price), !.D = result.updated_at,
                      !.E = result.jan_code]]
    ELSE sheet

\* faulty variant of WriteRow: the flush ends after its first result
WriteRowOnce ==
    /\ pc = "flush"
    /\ \E ok \in BOOLEAN :
        LET result == results[wpos + 1] IN
        /\ ledger' = update_sheet_data(ledger, result, ok)
        /\ writes' = Append(writes, [index |-> current_index + wpos,
                                      row |-> result.row_index,
                                      cell |-> price_value(result.price),
                                      ok |-> ok])
    /\ clock' = clock + WriteSleep
    /\ wpos' = wpos + 1
    /\ pc' = "checkpoint"
    /\ UNCHANGED <<config, persisted, runs, sheets_service, progress, max_items,
                   valid_items, start_time, current_index, batch_end, results,
                   retry, price_data, loaded, fetched, requests, waits, resps,
                   failed, stopped, outcome>>
    /\ UNCHANGED besides_sys

\* run_update: the flush loop, one result per step; the value
\* update_sheet_data returns is dropped
WriteRow ==
    /\ pc = "flush"
    /\ \E ok \in BOOLEAN :
        LET result == results[wpos + 1] IN
        /\ ledger' = update_sheet_data(ledger, result, ok)
        /\ writes' = Append(writes, [index |-> current_index + wpos,
                                      row |-> result.row_index,
                                      cell |-> price_value(result.price),
                                      ok |-> ok])
    /\ clock' = clock + WriteSleep
    /\ wpos' = wpos + 1
    /\ pc' = IF wpos + 1 < Len(results) THEN "flush" ELSE "checkpoint"
    /\ UNCHANGED <<config, persisted, runs, sheets_service, progress, max_items,
                   valid_items, start_time, current_index, batch_end, results,
                   retry, price_data, loaded, fetched, requests, waits, resps,
                   failed, stopped, outcome>>
    /\ UNCHANGED besides_sys

\* completion_rate = (batch_end / len(valid_items)) * 100, kept as its integer
\* part: it is 100 exactly when batch_end = len(valid_items)
Rate(done, total) == (done * 100) \div total

\* run_update: the progress after a batch
Advance(p, done, total) ==
    [p EXCEPT !.current_index = done, !.completion_rate = Rate(done, total)]

\* faulty variant of Checkpoint: the loop variable is not moved to batch_end
CheckpointStays ==
    /\ pc = "checkpoint"
    /\ progress' = Advance(progress, batch_end, Len(valid_items))
    /\ persisted' = save_progress(progress')
    /\ clock' = IF batch_end < Len(valid_items) THEN clock + BatchRest ELSE clock
    /\ pc' = "loop"
    /\ UNCHANGED <<config, ledger, runs, sheets_service, max_items, valid_items,
                   start_time, current_index, batch_end, results, wpos, retry,
                   price_data, history>>
    /\ UNCHANGED besides_sys

\* run_update: the checkpoint after the flush, and the rest between batches
Checkpoint ==
    /\ pc = "checkpoint"
    /\ progress' = Advance(progress, batch_end, Len(valid_items))
    /\ persisted' = save_progress(progress')
    /\ current_index' = batch_end
    /\ clock' = IF batch_end < Len(valid_items) THEN clock + BatchRest ELSE clock
    /\ pc' = "loop"
    /\ UNCHANGED <<config, ledger, runs, sheets_service, max_items, valid_items,
                   start_time, batch_end, results, wpos, retry, price_data, history>>
    /\ UNCHANGED besides_sys

\* faulty variant of Completion: the completion block also marks every item done
CompletionMarksAll(p) ==
    [p EXCEPT !.is_running = FALSE, !.completion_rate = 100,
              !.current_index = p.total_count]

\* run_update: the completion block after the loop, on either way out of it
Completion(p) == [p EXCEPT !.is_running = FALSE, !.completion_rate = 100]

Finish ==
    /\ pc = "finish"
    /\ progress' = Completion(progress)
    /\ persisted' = save_progress(progress')
    /\ outcome' = IF stopped THEN "time_limit" ELSE "completed"
    /\ pc' = "returned"
    /\ UNCHANGED <<config, ledger, runs, sheets_service, clock, locals, loaded,
                   fetched, requests, waits, resps, failed, writes, stopped>>
    /\ UNCHANGED besides_sys

\* run_update: "except Exception"
Handler ==
    /\ pc = "except"
    /\ progress' = [progress EXCEPT !.is_running = FALSE]
    /\ persisted' = save_progress(progress')
    /\ outcome' = "exception"
    /\ pc' = "returned"
    /\ UNCHANGED <<config, ledger, runs, sheets_service, clock, locals, loaded,
                   fetched, requests, waits, resps, failed, writes, stopped>>
    /\ UNCHANGED besides_sys

(* --------------------------- the process ends ------------------------ *)

Running == pc \in {"read", "loop", "item", "request", "got", "delay", "flush",
                   "checkpoint", "finish", "except"}

\* what is left of a process that has ended: the ledger and progress.json
Gone ==
    /\ pc' = "new"
    /\ sheets_service' = FALSE
    /\ progress' = DefaultProgress
    /\ clock' = 0
    /\ max_items' = None
    /\ valid_items' = <<>>
    /\ start_time' = 0
    /\ current_index' = 0
    /\ batch_end' = 0
    /\ results' = <<>>
    /\ wpos' = 0
    /\ retry' = 0
    /\ price_data' = 0
    /\ loaded' = Resumable(DefaultProgress)
    /\ fetched' = <<>>
    /\ requests' = 0
    /\ waits' = <<>>
    /\ resps' = <<>>
    /\ failed' = {}
    /\ writes' = <<>>
    /\ stopped' = FALSE
    /\ outcome' = "none"
    /\ UNCHANGED env
    /\ UNCHANGED besides_sys

\* main returns after run_update
Exit == pc = "returned" /\ Gone

\* the process is killed inside run_update (Ctrl-C, power loss): nothing
\* of run_update runs any more
Kill == Running /\ Gone

Next ==
    \/ Construct \/ Start \/ ReadLedger \/ LoopCheck \/ BeginItem \/ Request
    \/ EndItem \/ ItemDelay \/ WriteRow \/ Checkpoint \/ Finish \/ Handler
    \/ Exit \/ Kill

Spec == Init /\ [][Next]_vars

(* one process from __init__ to the return of run_update, not killed *)

\* progress.json as an earlier process can have left it: none, the file of a
\* run of two items that completed, the file of a run killed after the
\* checkpoint of its first item
ProgressFiles ==
    { NoFile,
      save_progress([current_index |-> 2, total_count |-> 2, processed_count |-> 2,
                     success_count |-> 1, error_count |-> 1, is_running |-> FALSE,
                     completion_rate |-> 100]),
      save_progress([current_index |-> 1, total_count |-> 2, processed_count |-> 1,
                     success_count |-> 0, error_count |-> 1, is_running |-> TRUE,
                     completion_rate |-> 50]) }

InitOneRun ==
    /\ config \in Configs
    /\ ledger \in Ledgers
    /\ persisted \in ProgressFiles
    /\ sheets_service = FALSE
    /\ progress = DefaultProgress
    /\ pc = "new"
    /\ runs = 0
    /\ clock = 0
    /\ Fresh
    /\ V2Idle
    /\ PsIdle
    /\ ExIdle
    /\ FnIdle
    /\ SchedIdle

\* the steps of run_update once it has been called
RunNext ==
    \/ ReadLedger \/ LoopCheck \/ BeginItem \/ Request \/ EndItem \/ ItemDelay
    \/ WriteRow \/ Checkpoint \/ Finish \/ Handler

NextOneRun == Construct \/ Start \/ RunNext

\* the interpreter goes on to the next statement, and every fetch and every
\* write returns: run_update takes a step whenever it has one
SpecOneRun == InitOneRun /\ [][NextOneRun]_vars /\ WF_vars(RunNext)

(* ---------------------- MorimoriPriceScraperV2 ----------------------- *)

\* make_request: time.sleep(2 ** attempt) seconds, in ticks
SecondTicks == 10

\* make_request: retries = 3
retries == 3

\* what a fetched page holds for scrape_price: the text extract_price_from_page
\* finds ("" when it returns None) and whether find_product_links finds a link
V2Pages ==
    { [price |-> "", link |-> FALSE], [price |-> "", link |-> TRUE],
      [price |-> "9800", link |-> FALSE] }

\* what requests.get does: a response with a status, or a RequestException
\* (a timeout, a connection error)
V2Responses ==
    { [kind |-> "response", status |-> 200, page |-> pg] : pg \in V2Pages }
    \cup { [kind |-> "response", status |-> st, page |-> [price |-> "", link |-> FALSE]] :
             st \in {404, 500} }
    \cup { [kind |-> "exception", status |-> 0, page |-> [price |-> "", link |-> FALSE]] }

\* response.raise_for_status() raises HTTPError, a RequestException
RaisesForStatus(r) == r.kind = "response" /\ r.status >= 400

\* One pass of the body of "for attempt in range(retries)" on response r:
\*   done  the call returns in this pass;  soup  what it returns
\*   wait  the ticks slept in this pass
MakeRequestPass(at, r) ==
    IF r.kind = "response" /\ ~RaisesForStatus(r)
    THEN [done |-> TRUE, soup |-> [kind |-> "soup", page |-> r.page], wait |-> 0]
    ELSE IF at < retries - 1
         THEN [done |-> FALSE, soup |-> NoSoup, wait |-> Pow2(at) * SecondTicks]
         ELSE [done |-> TRUE, soup |-> NoSoup, wait |-> 0]

\* the identifier cells of the worksheet: empty, blanks only, a JAN code
V2JanChoices == {"", " ", "4901234567894"}

V2Sheets ==
    { EmptySheet \o ids :
        ids \in [1..MaxRows -> {[B |-> id, C |-> "", D |-> "", E |-> ""] : id \in V2JanChoices}] }

\* str.strip() of an identifier cell
Strip(cell) == IF cell = " " THEN "" ELSE cell

\* get_jan_codes: the (row, jan_code) pairs of the non-blank cells of column B
\* below the header
RECURSIVE get_jan_codes(_, _)
get_jan_codes(sheet, i) ==
    IF i > Len(sheet) THEN <<>>
    ELSE IF sheet[i].B # "" /\ Strip(sheet[i].B) # ""
         THEN <<[row |-> i, jan_code |-> Strip(sheet[i].B)]>> \o get_jan_codes(sheet, i + 1)
         ELSE get_jan_codes(sheet, i + 1)

\* the scraper is constructed on a worksheet
V2Open ==
    /\ v_pc = "off"
    /\ v_sheet' \in V2Sheets
    /\ v_pc' = "idle"
    /\ UNCHANGED <<v_jan_codes, v_pos, v_target, v_attempt, v_soup, v_result,
                   v_success, v_fail, v_resps, v_waits, v_pages, v_updates>>
    /\ UNCHANGED besides_v2

\* run: get_jan_codes, the early return, the counters
V2Run ==
    /\ v_pc = "idle"
    /\ v_jan_codes' = get_jan_codes(v_sheet, 2)
    /\ v_success' = 0
    /\ v_fail' = 0
    /\ IF v_jan_codes' = <<>>
       THEN v_pc' = "done" /\ UNCHANGED v_pos
       ELSE v_pc' = "scrape" /\ v_pos' = 1
    /\ UNCHANGED <<v_sheet, v_target, v_attempt, v_soup, v_result, v_resps,
                   v_waits, v_pages, v_updates>>
    /\ UNCHANGED besides_v2

\* run calls scrape_price, which calls make_request(search_url)
V2Scrape ==
    /\ v_pc = "scrape"
    /\ v_target' = "search"
    /\ v_attempt' = 0
    /\ v_resps' = <<>>
    /\ v_waits' = <<>>
    /\ v_pages' = 0
    /\ v_pc' = "request"
    /\ UNCHANGED <<v_sheet, v_jan_codes, v_pos, v_soup, v_result, v_success,
                   v_fail, v_updates>>
    /\ UNCHANGED besides_v2

\* make_request: one pass of the retry loop
V2Request ==
    /\ v_pc = "request"
    /\ \E r \in V2Responses :
        LET a == MakeRequestPass(v_attempt, r) IN
        /\ v_resps' = Append(v_resps, Outcome(r))
        /\ v_waits' = IF a.wait > 0 THEN Append(v_waits, a.wait) ELSE v_waits
        /\ IF a.done
           THEN /\ v_soup' = a.soup
                /\ v_pages' = IF a.soup # NoSoup THEN v_pages + 1 ELSE v_pages
                /\ v_pc' = "page"
                /\ UNCHANGED v_attempt
           ELSE /\ v_attempt' = v_attempt + 1
                /\ v_pc' = "request"
                /\ UNCHANGED <<v_soup, v_pages>>
    /\ UNCHANGED <<v_sheet, v_jan_codes, v_pos, v_target, v_result, v_success,
                   v_fail, v_updates>>
    /\ UNCHANGED besides_v2

\* faulty variant of FollowsLink: a product link is followed from any page
FollowsLinkAnywhere(target, page) == page.link

\* scrape_price: find_product_links is called on the search page only, and
\* product_links[0] is fetched when the list is not empty
FollowsLink(target, page) == target = "search" /\ page.link

\* scrape_price after make_request returned: None without a page; the price
\* of the page if it has one; from the search page the first product link is
\* followed; a detail page without a price gives None
V2Page ==
    /\ v_pc = "page"
    /\ IF v_soup = NoSoup
       THEN /\ v_result' = NoResult
            /\ v_pc' = "update"
            /\ UNCHANGED <<v_target, v_attempt, v_resps, v_waits>>
       ELSE IF v_soup.page.price # ""
       THEN /\ v_result' = [found |-> TRUE, price |-> v_soup.page.price, url |-> v_target]
            /\ v_pc' = "update"
            /\ UNCHANGED <<v_target, v_attempt, v_resps, v_waits>>
       ELSE IF FollowsLink(v_target, v_soup.page)
       THEN /\ v_target' = "detail"
            /\ v_attempt' = 0
            /\ v_resps' = <<>>
            /\ v_waits' = <<>>
            /\ v_pc' = "request"
            /\ UNCHANGED v_result
       ELSE /\ v_result' = NoResult
            /\ v_pc' = "update"
            /\ UNCHANGED <<v_target, v_attempt, v_resps, v_waits>>
    /\ UNCHANGED <<v_sheet, v_jan_codes, v_pos, v_soup, v_success, v_fail,
                   v_pages, v_updates>>
    /\ UNCHANGED besides_v2

\* update_spreadsheet: update_cells on the cells (row, 3), (row, 4), (row, 5);
\* an exception is logged and dropped
update_spreadsheet(sheet, row, price, url, ok) ==
    IF ok
    THEN [sheet EXCEPT ![row] = [@ EXCEPT !.C = price, !.D = "now", !.E = url]]
    ELSE sheet

\* faulty variant of V2Update: a failed update_cells ends the loop
V2UpdateStopsOnError ==
    /\ v_pc = "update"
    /\ \E ok \in BOOLEAN :
        LET row == v_jan_codes[v_pos].row
            price == IF v_result.found THEN v_result.price ELSE "FAILED"
            url == IF v_result.found THEN v_result.url ELSE "search"
        IN /\ v_sheet' = update_spreadsheet(v_sheet, row, price, url, ok)
           /\ v_updates' = Append(v_updates, [row |-> row, price |-> price,
                                               url |-> url, ok |-> ok])
           /\ IF ok /\ v_pos < Len(v_jan_codes)
              THEN v_pc' = "scrape" /\ v_pos' = v_pos + 1
              ELSE v_pc' = "done" /\ UNCHANGED v_pos
    /\ v_success' = IF v_result.found THEN v_success + 1 ELSE v_success
    /\ v_fail' = IF v_result.found THEN v_fail ELSE v_fail + 1
    /\ v_soup' = NoSoup
    /\ v_result' = NoResult
    /\ UNCHANGED <<v_jan_codes, v_target, v_attempt, v_resps, v_waits, v_pages>>
    /\ UNCHANGED besides_v2

\* run: the row is updated with the result or with the failure marker
\* ("FAILED" for the source's literal), counted, and the loop moves on
V2Update ==
    /\ v_pc = "update"
    /\ \E ok \in BOOLEAN :
        LET row == v_jan_codes[v_pos].row
            price == IF v_result.found THEN v_result.price ELSE "FAILED"
            url == IF v_result.found THEN v_result.url ELSE "search"
        IN /\ v_sheet' = update_spreadsheet(v_sheet, row, price, url, ok)
           /\ v_updates' = Append(v_updates, [row |-> row, price |-> price,
                                               url |-> url, ok |-> ok])
    /\ v_success' = IF v_result.found THEN v_success + 1 ELSE v_success
    /\ v_fail' = IF v_result.found THEN v_fail ELSE v_fail + 1
    /\ IF v_pos < Len(v_jan_codes)
       THEN v_pc' = "scrape" /\ v_pos' = v_pos + 1
       ELSE v_pc' = "done" /\ UNCHANGED v_pos
    /\ v_soup' = NoSoup
    /\ v_result' = NoResult
    /\ UNCHANGED <<v_jan_codes, v_target, v_attempt, v_resps, v_waits, v_pages>>
    /\ UNCHANGED besides_v2

\* MorimoriPCSystem is not running
SysIdle ==
    /\ config = [batch_size |-> 20, delay_ms |-> 1500, max_execution_time |-> 3000]
    /\ ledger = <<Row("JAN")>>
    /\ persisted = NoFile
    /\ sheets_service = FALSE
    /\ progress = DefaultProgress
    /\ pc = "new"
    /\ runs = MaxRuns
    /\ clock = 0
    /\ Fresh

InitV2 == SysIdle /\ V2Idle /\ PsIdle /\ ExIdle /\ FnIdle /\ SchedIdle

NextV2 == V2Open \/ V2Run \/ V2Scrape \/ V2Request \/ V2Page \/ V2Update

SpecV2 == InitV2 /\ [][NextV2]_vars

(* ------------- update_spreadsheet, the all-rows updater ------------- *)

\* the cells of column B: empty, a text that is not a number, a JAN code
PsJanChoices == {"", "N/A", "4901234567894"}

\* str.isdigit() of a stripped cell of column B
isdigit(cell) == cell = "4901234567894"

PsRowOf(id) == [B |-> id, C |-> "", D |-> ""]

\* worksheets: the header row, then MaxRows rows
PsSheets ==
    { <<PsRowOf("JAN")>> \o ids : ids \in [1..MaxRows -> {PsRowOf(id) : id \in PsJanChoices}] }

\* what search_and_get_price returns: a price with the yen glyph, the
\* no-price text, the text of a failed lookup (it has the word for error)
PsPrices == {"YEN9,800", "NO_PRICE", "LOOKUP_ERROR"}

\* the check of column B that both loops of update_spreadsheet make
\* ("JAN" stands for the header text the code compares with)
PsQualifies(row_data) ==
    LET jan_code == Strip(row_data.B)
    IN jan_code # "" /\ jan_code # "JAN" /\ isdigit(jan_code)

\* the two calls update_cell(row_number, 3, price), update_cell(row_number, 4,
\* current_time); bad is the column whose call raises, 0 if neither does
UpdateCells(sheet, row_number, price, bad) ==
    [sheet EXCEPT ![row_number] =
        [@ EXCEPT !.C = IF bad = 3 THEN @ ELSE price,
                  !.D = IF bad = 0 THEN "now" ELSE @]]

\* the update_cell calls that were made when the column bad raised
CellCalls(row_number, bad) ==
    IF bad = 3 THEN <<[row |-> row_number, col |-> 3, ok |-> FALSE]>>
    ELSE <<[row |-> row_number, col |-> 3, ok |-> TRUE],
           [row |-> row_number, col |-> 4, ok |-> (bad = 0)]>>

\* update_spreadsheet up to get_all_values; a failure to connect or to start
\* the browser raises into the outer handler
PsOpen ==
    /\ p_pc = "off"
    /\ \E ok \in BOOLEAN :
        IF ok
        THEN /\ p_sheet' \in PsSheets
             /\ p_index' = 1
             /\ p_pc' = "row"
             /\ UNCHANGED p_end
        ELSE /\ p_pc' = "ended"
             /\ p_end' = "error"
             /\ UNCHANGED <<p_sheet, p_index>>
    /\ UNCHANGED <<p_price, p_processed, p_success, p_error, p_looked, p_calls>>
    /\ UNCHANGED besides_ps

\* the head of "for row_index in range(1, len(all_values))": the loop ends
\* (the summary divides by processed_count), the row is skipped, or it is
\* counted and looked up
PsRow ==
    /\ p_pc = "row"
    /\ IF p_index > Len(p_sheet) - 1
       THEN /\ p_pc' = "ended"
            /\ p_end' = IF p_processed = 0 THEN "error" ELSE "completed"
            /\ UNCHANGED <<p_index, p_processed, p_looked>>
       ELSE IF ~PsQualifies(p_sheet[p_index + 1])
       THEN /\ p_index' = p_index + 1
            /\ UNCHANGED <<p_pc, p_end, p_processed, p_looked>>
       ELSE /\ p_processed' = p_processed + 1
            /\ p_looked' = Append(p_looked, p_index + 1)
            /\ p_pc' = "search"
            /\ UNCHANGED <<p_index, p_end>>
    /\ UNCHANGED <<p_sheet, p_price, p_success, p_error, p_calls>>
    /\ UNCHANGED besides_ps

\* search_and_get_price and the counters
PsSearch ==
    /\ p_pc = "search"
    /\ \E price \in PsPrices :
        /\ p_price' = price
        /\ p_success' = IF price = "YEN9,800" THEN p_success + 1 ELSE p_success
        /\ p_error' = IF price = "LOOKUP_ERROR" THEN p_error + 1 ELSE p_error
    /\ p_pc' = "write"
    /\ UNCHANGED <<p_sheet, p_index, p_processed, p_looked, p_calls, p_end>>
    /\ UNCHANGED besides_ps

\* the try block of the write: on an exception the handler sleeps 60 s and
\* writes again
PsWrite ==
    /\ p_pc = "write"
    /\ \E bad \in {0, 3, 4} :
        /\ p_sheet' = UpdateCells(p_sheet, p_index + 1, p_price, bad)
        /\ p_calls' = p_calls \o CellCalls(p_index + 1, bad)
        /\ IF bad = 0
           THEN p_pc' = "row" /\ p_index' = p_index + 1
           ELSE p_pc' = "retry" /\ UNCHANGED p_index
    /\ UNCHANGED <<p_price, p_processed, p_success, p_error, p_looked, p_end>>
    /\ UNCHANGED besides_ps

\* the two update_cell calls of the except clause: an exception here is
\* caught by the handler of the whole function, which ends the call
PsRetry ==
    /\ p_pc = "retry"
    /\ \E bad \in {0, 3, 4} :
        /\ p_sheet' = UpdateCells(p_sheet, p_index + 1, p_price, bad)
        /\ p_calls' = p_calls \o CellCalls(p_index + 1, bad)
        /\ IF bad = 0
           THEN p_pc' = "row" /\ p_index' = p_index + 1 /\ UNCHANGED p_end
           ELSE p_pc' = "ended" /\ p_end' = "error" /\ UNCHANGED p_index
    /\ UNCHANGED <<p_price, p_processed, p_success, p_error, p_looked>>
    /\ UNCHANGED besides_ps

InitPS == SysIdle /\ V2Idle /\ PsIdle /\ ExIdle /\ FnIdle /\ SchedIdle

NextPS == PsOpen \/ PsRow \/ PsSearch \/ PsWrite \/ PsRetry

SpecPS == InitPS /\ [][NextPS]_vars

(* --------- update_spreadsheet_with_jan_codes (Excel updater) --------- *)

(* A text is the sequence of its characters; "EN" is the unit word yen,    *)
(* "YEN" the yen glyph, "ASK" a word without digits.                       *)

IsDigitChar(c) == c \in {"0", "1", "2", "3", "4", "5", "6", "7", "8", "9"}

\* the characters of the class [\d,]
IsNumberChar(c) == IsDigitChar(c) \/ c = ","

\* the longest prefix of text made of characters of [\d,]
RECURSIVE NumberPrefix(_)
NumberPrefix(text) ==
    IF text # <<>> /\ IsNumberChar(Head(text))
    THEN <<Head(text)>> \o NumberPrefix(Tail(text))
    ELSE <<>>

\* re.findall(r'[\d,]+', text)[0]: the first run of digits and commas, <<>>
\* when findall returns []
RECURSIVE FirstNumber(_)
FirstNumber(text) ==
    IF text = <<>> THEN <<>>
    ELSE IF IsNumberChar(Head(text)) THEN NumberPrefix(text)
    ELSE FirstNumber(Tail(text))

\* int() of a non-empty sequence of digits
RECURSIVE IntOf(_)
IntOf(ds) ==
    IF Len(ds) = 1 THEN CHOOSE d \in 0..9 : ToString(d) = ds[1]
    ELSE 10 * IntOf(SubSeq(ds, 1, Len(ds) - 1))
         + (CHOOSE d \in 0..9 : ToString(d) = ds[Len(ds)])

\* MobileIchibanScraper.parse_price: the first run of digits and commas
\* without its commas, as an integer; 0 when there is no run, and 0 when
\* int() raises (a run of commas only)
parse_price(price_text) ==
    LET ds == SelectSeq(FirstNumber(price_text), IsDigitChar)
    IN IF ds = <<>> THEN 0 ELSE IntOf(ds)

\* find_price_in_element returned None
NoText == <<>>

\* what find_price_in_element returns for an element: None, the first match
\* of a price pattern with the unit word added, or the text of a price
\* element that has the unit word or the glyph
ExTexts ==
    { NoText, <<"0", "EN">>, Thousands(9800) \o <<"EN">>, <<"YEN", "ASK">> }

\* extract_product_info: the product of a card, with 'price' and 'price_text'
extract_product_info(price_text) ==
    [price |-> parse_price(price_text), price_text |-> price_text]

\* the products of the elements whose price text is not None, in order
RECURSIVE ProductsOf(_)
ProductsOf(texts) ==
    IF texts = <<>> THEN <<>>
    ELSE IF Head(texts) # NoText
         THEN <<extract_product_info(Head(texts))>> \o ProductsOf(Tail(texts))
         ELSE ProductsOf(Tail(texts))

\* a result page: the price texts of its product cards, and those of the
\* elements the text search climbs to from a mention of the JAN code
ExPages ==
    [ cards : {<<>>} \cup {<<t>> : t \in ExTexts}
                    \cup {<<t, u>> : t \in ExTexts, u \in {NoText, <<"0", "EN">>}},
      hits : {<<>>, <<<<"YEN", "ASK">>>>, <<Thousands(9800) \o <<"EN">>>>} ]

\* extract_products_from_page: the products of the cards, or those of the
\* text search when the cards give none
extract_products_from_page(page) ==
    IF ProductsOf(page.cards) # <<>> THEN ProductsOf(page.cards)
    ELSE ProductsOf(page.hits)

\* the cells of column H: empty, blanks only, a JAN code
ExJanChoices == {"", " ", "4901234567894"}

\* a row of the workbook: H the JAN code, G the price (None when empty),
\* I the date
ExRowOf(id) == [H |-> id, G |-> None, I |-> ""]

\* what the price and date cells of a row hold when the workbook is opened:
\* nothing, or the price and the date an earlier run saved
ExCellChoices == {[G |-> None, I |-> ""], [G |-> 5000, I |-> "before"]}

ExBooks ==
    { <<ExRowOf("JAN")>> \o rows :
        rows \in [1..MaxRows -> {[ExRowOf(id) EXCEPT !.G = c.G, !.I = c.I] :
                                    id \in ExJanChoices, c \in ExCellChoices}] }

\* openpyxl.load_workbook; an exception is logged and raised again
ExOpen ==
    /\ x_pc = "off"
    /\ \E ok \in BOOLEAN :
        IF ok
        THEN /\ x_book' \in ExBooks
             /\ x_file' = x_book'
             /\ x_row' = 2
             /\ x_pc' = "row"
        ELSE /\ x_pc' = "raised"
             /\ UNCHANGED <<x_book, x_file, x_row>>
    /\ UNCHANGED <<x_products, x_sets>>
    /\ UNCHANGED besides_ex

\* the head of "for row_num in range(2, ws.max_row + 1)" and the test of the
\* JAN cell
ExRow ==
    /\ x_pc = "row"
    /\ IF x_row > Len(x_book)
       THEN x_pc' = "save" /\ UNCHANGED x_row
       ELSE IF x_book[x_row].H # "" /\ Strip(x_book[x_row].H) # ""
       THEN x_pc' = "search" /\ UNCHANGED x_row
       ELSE x_row' = x_row + 1 /\ UNCHANGED x_pc
    /\ UNCHANGED <<x_book, x_file, x_products, x_sets>>
    /\ UNCHANGED besides_ex

\* search_by_jan: the products of the page, [] when the request or the
\* status raises
ExSearch ==
    /\ x_pc = "search"
    /\ \/ \E page \in ExPages : x_products' = extract_products_from_page(page)
       \/ x_products' = <<>>
    /\ x_pc' = "set"
    /\ UNCHANGED <<x_book, x_file, x_row, x_sets>>
    /\ UNCHANGED besides_ex

\* faulty variant of ExSet: the workbook is saved after every row
ExSetSaves ==
    /\ x_pc = "set"
    /\ IF x_products # <<>>
       THEN /\ x_book' = [x_book EXCEPT ![x_row] =
                            [@ EXCEPT !.G = x_products[1].price, !.I = "today"]]
            /\ x_sets' = Append(x_sets, [row |-> x_row, value |-> x_products[1].price,
                                         price_text |-> x_products[1].price_text])
       ELSE UNCHANGED <<x_book, x_sets>>
    /\ x_file' = x_book'
    /\ x_row' = x_row + 1
    /\ x_products' = <<>>
    /\ x_pc' = "row"
    /\ UNCHANGED besides_ex

\* faulty variant of ExSet: a lookup without a product empties the cells
ExSetClearsOnMiss ==
    /\ x_pc = "set"
    /\ IF x_products # <<>>
       THEN /\ x_book' = [x_book EXCEPT ![x_row] =
                            [@ EXCEPT !.G = x_products[1].price, !.I = "today"]]
            /\ x_sets' = Append(x_sets, [row |-> x_row, value |-> x_products[1].price,
                                         price_text |-> x_products[1].price_text])
       ELSE /\ x_book' = [x_book EXCEPT ![x_row] = [@ EXCEPT !.G = None, !.I = ""]]
            /\ UNCHANGED x_sets
    /\ x_row' = x_row + 1
    /\ x_products' = <<>>
    /\ x_pc' = "row"
    /\ UNCHANGED x_file
    /\ UNCHANGED besides_ex

\* "if products": the price and the date of the first product are set into
\* the cells of the row
ExSet ==
    /\ x_pc = "set"
    /\ IF x_products # <<>>
       THEN /\ x_book' = [x_book EXCEPT ![x_row] =
                            [@ EXCEPT !.G = x_products[1].price, !.I = "today"]]
            /\ x_sets' = Append(x_sets, [row |-> x_row, value |-> x_products[1].price,
                                         price_text |-> x_products[1].price_text])
       ELSE UNCHANGED <<x_book, x_sets>>
    /\ x_row' = x_row + 1
    /\ x_products' = <<>>
    /\ x_pc' = "row"
    /\ UNCHANGED x_file
    /\ UNCHANGED besides_ex

\* a file that save has opened for writing and not completed
Truncated == <<>>

\* wb.save(excel_file_path); an exception is logged and raised again, and
\* the file is then as it was (the path cannot be opened) or truncated
ExSave ==
    /\ x_pc = "save"
    /\ \E ok \in BOOLEAN :
        IF ok THEN x_file' = x_book /\ x_pc' = "done"
        ELSE x_pc' = "raised" /\ x_file' \in {x_file, Truncated}
    /\ UNCHANGED <<x_book, x_row, x_products, x_sets>>
    /\ UNCHANGED besides_ex

\* the process is interrupted between load_workbook and save
\* (KeyboardInterrupt is no Exception; a kill): the workbook in memory is
\* lost, the file stays as it is
ExInterrupt ==
    /\ x_pc \in {"row", "search", "set", "save"}
    /\ x_pc' = "interrupted"
    /\ UNCHANGED <<x_book, x_file, x_row, x_products, x_sets>>
    /\ UNCHANGED besides_ex

InitEx == SysIdle /\ V2Idle /\ PsIdle /\ ExIdle /\ FnIdle /\ SchedIdle

NextEx == ExOpen \/ ExRow \/ ExSearch \/ ExSet \/ ExSave \/ ExInterrupt

SpecEx == InitEx /\ [][NextEx]_vars

(* ------------------ parse_search_results, one call ------------------ *)

\* phrases of a page
MaxPhrases == 2

\* the labelled price phrases a page can have
PhraseChoices ==
    { Phrase(l, c, m, n) : l \in Labels, c \in {"ascii", "wide", "none"},
                           m \in {"", "JOGEN", "NAMI"}, n \in {0, 9800, 15000} }
    \cup { RangeFrom(Phrase(l, c, m, n)) :
              l \in Labels, c \in {"ascii", "wide", "none"},
              m \in {"", "JOGEN", "NAMI"}, n \in {0, 9800, 15000} }

\* the pages of up to MaxPhrases phrases
ParsePages ==
    UNION { [1..len -> PhraseChoices] : len \in 0..MaxPhrases }

\* everything but the function call is at rest
OthersIdle == SysIdle /\ V2Idle /\ PsIdle /\ ExIdle /\ SchedIdle

\* parse_search_results is called with the text of a page
InitParse ==
    /\ OthersIdle
    /\ f_pc = "called"
    /\ f_in \in ParsePages
    /\ f_out = <<>>

ParseCall ==
    /\ f_pc = "called"
    /\ f_out' = parse_search_results(f_in)
    /\ f_pc' = "returned"
    /\ UNCHANGED f_in
    /\ UNCHANGED besides_fn

NextParse == ParseCall

SpecParse == InitParse /\ [][NextParse]_vars

(* ---------------- a price is written and read again ---------------- *)

\* the price cell and the returned price string: f"YEN{n:,}"
FormatYen(n) == <<"YEN">> \o Thousands(n)

\* the price as the pages print it and the patterns read it: digits in
\* groups of three, then the unit word
FormatEn(n) == Thousands(n) \o <<"EN">>

\* text.replace(',', '')
StripCommas(text) == SelectSeq(text, LAMBDA c : c # ",")

\* parse_search_results: int(match.group(1).replace(',', '')), where group 1
\* is the run of [0-9,] the pattern captured
price_of_group(group) == IntOf(StripCommas(group))

\* the prices written
PriceChoices ==
    (1..20) \cup { k * 1000 + j : k \in {1, 10, 999, 1000, 1234, 5000},
                                 j \in {0, 5, 50, 500, 999} }

Writers == {"FormatYen", "FormatEn"}

\* a price is about to be written by one of the writers
InitRoundTrip ==
    /\ OthersIdle
    /\ f_pc = "price"
    /\ f_in \in [n : PriceChoices, writer : Writers]
    /\ f_out = <<>>

\* the writer formats the price
WritePrice ==
    /\ f_pc = "price"
    /\ f_out' = [text |-> IF f_in.writer = "FormatYen" THEN FormatYen(f_in.n)
                                                       ELSE FormatEn(f_in.n)]
    /\ f_pc' = "written"
    /\ UNCHANGED f_in
    /\ UNCHANGED besides_fn

\* the text is read again by both parsers
ReadPrice ==
    /\ f_pc = "written"
    /\ f_out' = [text |-> f_out.text,
                 parse_price |-> parse_price(f_out.text),
                 price |-> price_of_group(FirstNumber(f_out.text))]
    /\ f_pc' = "read"
    /\ UNCHANGED f_in
    /\ UNCHANGED besides_fn

NextRoundTrip == WritePrice \/ ReadPrice

SpecRoundTrip == InitRoundTrip /\ [][NextRoundTrip]_vars

(* ------------- search_and_get_price: the price selection ------------- *)

\* prices of one kind on a result page
MaxCandidates == 2

\* the sanity band: 10000 <= price_value <= 5000000
BandLow == 10000

BandHigh == 5000000

\* faulty variant of InBand: no upper end
InBandNoCeiling(v) == BandLow <= v

InBand(v) == BandLow <= v /\ v <= BandHigh

\* the prices a result page shows
CandidateChoices == {9800, 10000, 15000, 5000000, 5000001}

\* a result page: the prices followed by the unit word and those preceded
\* by the glyph, in page order
ResultPages ==
    [suffixed : UNION { [1..len -> CandidateChoices] : len \in 0..MaxCandidates },
     prefixed : UNION { [1..len -> CandidateChoices] : len \in 0..MaxCandidates }]

\* re.findall of a price pattern: the captured groups, digits and commas
findall(prices) == [k \in 1..Len(prices) |-> Thousands(prices[k])]

\* the loop over the matches: int(match.replace(',', '')), kept when in band
valid_prices(matches) ==
    SelectSeq([k \in 1..Len(matches) |-> IntOf(StripCommas(matches[k]))], InBand)

\* max() of a non-empty list
max(prices) ==
    CHOOSE v \in {prices[k] : k \in 1..Len(prices)} :
        \A k \in 1..Len(prices) : prices[k] <= v

\* the string returned when no price is in band
KakakuNashi == <<"KAKAKU-NASHI">>

\* the price selection of search_and_get_price
select_price(page) ==
    LET valid_prices1 == valid_prices(findall(page.suffixed))
        valid_prices2 == valid_prices(findall(page.prefixed))
    IN IF valid_prices1 # <<>> THEN FormatYen(max(valid_prices1))
       ELSE IF valid_prices2 # <<>> THEN FormatYen(max(valid_prices2))
       ELSE KakakuNashi

\* the page source of a result page is at hand
InitBand ==
    /\ OthersIdle
    /\ f_pc = "page_source"
    /\ f_in \in ResultPages
    /\ f_out = <<>>

SelectPrice ==
    /\ f_pc = "page_source"
    /\ f_out' = select_price(f_in)
    /\ f_pc' = "selected"
    /\ UNCHANGED f_in
    /\ UNCHANGED besides_fn

NextBand == SelectPrice

SpecBand == InitBand /\ [][NextBand]_vars

(* ------------------------ PriceUpdateScheduler ----------------------- *)

\* the half days the scheduler is followed for
MaxHalfDays == 4

Monday == 0

\* the weekday of the day of time t
Weekday(t) == (s_start + (t \div 2)) % 7

\* t is a 09:00
IsNine(t) == t % 2 = 1

\* every().day.at("09:00"): the first 09:00 after now
NextNine(now) == IF IsNine(now) THEN now + 2 ELSE now + 1

\* every().monday.at("09:00"): the first Monday 09:00 after now
NextMondayNine(now) ==
    CHOOSE t \in (now + 1)..(now + 14) :
        /\ IsNine(t) /\ Weekday(t) = Monday
        /\ \A u \in (now + 1)..(t - 1) : ~(IsNine(u) /\ Weekday(u) = Monday)

\* Job._schedule_next_run
schedule_next(job, now) ==
    IF job = "day" THEN NextNine(now) ELSE NextMondayNine(now)

\* the jobs in the order start_scheduler registered them
Jobs == <<"day", "monday">>

\* Job.should_run: now >= next_run
should_run(job) == s_now >= s_next[job]

\* run_pending: sorted(the runnable jobs), by next_run, the registration
\* order kept among equals
RunnableJobs ==
    LET due == SelectSeq(Jobs, should_run)
    IN IF Len(due) = 2 /\ s_next[due[2]] < s_next[due[1]]
       THEN <<due[2], due[1]>>
       ELSE due

\* how run_price_update can end: a file is missing, the script returned 0,
\* it returned another code, subprocess.run raised
UpdateResults == {"no_file", "done", "failed", "raised"}

\* start_scheduler: the two jobs are registered, then the first call of
\* run_price_update
SchedStart ==
    /\ s_pc = "off"
    /\ s_start' \in 0..6
    /\ s_now' \in {0, 1}
    /\ s_next' = [j \in {"day", "monday"} |->
                    IF j = "day" THEN NextNine(s_now') ELSE NextMondayNine(s_now')]
    /\ s_job' = "initial"
    /\ s_pc' = "call"
    /\ UNCHANGED <<s_queue, s_active, s_result, s_runs>>
    /\ UNCHANGED besides_sched

\* run_price_update is entered
SchedCall ==
    /\ s_pc = "call"
    /\ s_active' = s_active + 1
    /\ s_runs' = Append(s_runs, [job |-> s_job,
                                  at |-> IF s_job = "initial" THEN None ELSE s_next[s_job]])
    /\ s_pc' = "update"
    /\ UNCHANGED <<s_start, s_now, s_next, s_job, s_queue, s_result>>
    /\ UNCHANGED besides_sched

\* run_price_update returns (it catches every exception); a job is then
\* scheduled again from the time of its return, and run_pending goes on
\* with the next runnable job
SchedReturn ==
    /\ s_pc = "update"
    /\ \E r \in UpdateResults, took \in {0, 1} :
        /\ s_now + took <= MaxHalfDays
        /\ s_result' = r
        /\ s_now' = s_now + took
    /\ s_active' = s_active - 1
    /\ s_next' = IF s_job = "initial" THEN s_next
                 ELSE [s_next EXCEPT ![s_job] = schedule_next(s_job, s_now')]
    /\ IF s_job = "initial"
       THEN s_pc' = "pending" /\ s_job' = "none" /\ UNCHANGED s_queue
       ELSE IF s_queue # <<>>
       THEN s_pc' = "call" /\ s_job' = Head(s_queue) /\ s_queue' = Tail(s_queue)
       ELSE s_pc' = "sleep" /\ s_job' = "none" /\ UNCHANGED s_queue
    /\ UNCHANGED <<s_start, s_runs>>
    /\ UNCHANGED besides_sched

\* schedule.run_pending()
SchedPending ==
    /\ s_pc = "pending"
    /\ IF RunnableJobs = <<>>
       THEN s_pc' = "sleep" /\ UNCHANGED <<s_job, s_queue>>
       ELSE /\ s_job' = Head(RunnableJobs)
            /\ s_queue' = Tail(RunnableJobs)
            /\ s_pc' = "call"
    /\ UNCHANGED <<s_start, s_now, s_next, s_active, s_result, s_runs>>
    /\ UNCHANGED besides_sched

\* time.sleep(60), as often as nothing becomes runnable: up to the next
\* half day
SchedSleep ==
    /\ s_pc = "sleep"
    /\ s_now < MaxHalfDays
    /\ s_now' = s_now + 1
    /\ s_pc' = "pending"
    /\ UNCHANGED <<s_start, s_next, s_job, s_queue, s_active, s_result, s_runs>>
    /\ UNCHANGED besides_sched

\* KeyboardInterrupt in the main loop
SchedStop ==
    /\ s_pc \in {"pending", "sleep"}
    /\ s_pc' = "stopped"
    /\ UNCHANGED <<s_start, s_now, s_next, s_job, s_queue, s_active, s_result, s_runs>>
    /\ UNCHANGED besides_sched

InitSched == SysIdle /\ V2Idle /\ PsIdle /\ ExIdle /\ FnIdle /\ SchedIdle

NextSched ==
    SchedStart \/ SchedCall \/ SchedReturn \/ SchedPending \/ SchedSleep \/ SchedStop

SpecSched == InitSched /\ [][NextSched]_vars

(* ------------------- one program or the other runs ------------------- *)

\* MorimoriPCSystem on its ledger, or MorimoriPriceScraperV2 on its worksheet
InitLedgers == Init \/ InitV2

NextLedgers == Next \/ (SysIdle /\ NextV2)

SpecLedgers == InitLedgers /\ [][NextLedgers]_vars

(* ------------------------------ claims ------------------------------ *)

Returned == pc = "returned"

InRun == Running \/ Returned

\* the indices of valid_items searched so far in this run, as a set
FetchedSet == {fetched[j] : j \in 1..Len(fetched)}

\* the update_sheet_data calls of this run for item idx
WritesOf(idx) == {k \in 1..Len(writes) : writes[k].index = idx}

\* C1: a run entered with is_running = true and current_index = k > 0 loaded
\* from progress.json searches only items at index >= k and issues no ledger
\* write for an item at index < k.
C1_ResumeFromCheckpoint ==
    (InRun /\ loaded.is_running /\ loaded.current_index > 0) =>
        /\ \A idx \in FetchedSet : idx >= loaded.current_index
        /\ \A k \in 1..Len(writes) : writes[k].index >= loaded.current_index

\* C2: once this run has saved a checkpoint, every item below the persisted
\* current_index has a ledger write that succeeded.
C2_WriteBeforeCheckpoint ==
    (InRun /\ current_index > 0 /\ persisted.exists) =>
        \A idx \in 0..(persisted.progress.current_index - 1) :
            \E k \in WritesOf(idx) : writes[k].ok

\* C3: a run stopped by the time limit ends with is_running = false and
\* completion_rate < 100, in memory and in progress.json.
C3_TimeLimitBelow100 ==
    (Returned /\ outcome = "time_limit") =>
        /\ ~progress.is_running
        /\ progress.completion_rate < 100
        /\ persisted.exists
        /\ ~persisted.progress.is_running
        /\ persisted.progress.completion_rate < 100

C5_NotRunningAfterReturn == Returned => ~progress.is_running

\* C6: a run that exhausts its items ends with completion_rate = 100,
\* is_running = false, current_index = processed_count = total_count, and
\* exactly one write issued for the row of every work item.
C6_Completed ==
    (Returned /\ outcome = "completed") =>
        /\ progress.completion_rate = 100
        /\ ~progress.is_running
        /\ progress.total_count = Len(valid_items)
        /\ progress.current_index = progress.total_count
        /\ progress.processed_count = progress.total_count
        /\ \A i \in 1..Len(valid_items) :
            Cardinality({k \in 1..Len(writes) :
                            writes[k].row = valid_items[i].row_index}) = 1

C6_Witness ==
    /\ Returned
    /\ outcome = "completed"
    /\ Len(valid_items) = 2
    /\ config.batch_size = 1
    /\ progress.success_count = 1
    /\ progress.error_count = 1

\* the search of item idx is over and run_update has taken its result
Handled(idx) == ~(pc = "got" /\ fetched[Len(fetched)] = idx)

SearchOver == pc = "got"

\* C8: when every response is 429, 3 requests are issued, the wait after the
\* 429 of attempt a is (2^a)*2 s, every wait is followed by a retry (so there
\* is one wait less than requests) and the call returns the failure value.
C8_RateLimitBackoff ==
    (SearchOver /\ \A k \in 1..Len(resps) : resps[k] = 429) =>
        /\ requests = max_retries
        /\ price_data = 0
        /\ Len(waits) = requests - 1
        /\ \A a \in 0..(Len(waits) - 1) : waits[a + 1] = Pow2(a) * RateLimitBase

\* C9: a response with a status other than 200 and 429 ends the search at
\* once, at whatever attempt: it is the last request of the call, no wait
\* follows it, and the call returns the no-data value.
C9_OtherStatusReturns ==
    \A k \in 1..Len(resps) :
        resps[k] \notin {0, 200, 429} =>
            /\ k = Len(resps)
            /\ SearchOver
            /\ requests = k
            /\ Len(waits) = k - 1
            /\ price_data = 0

\* a 404 on the third attempt, after a 429 and an exception
C9_Witness ==
    /\ SearchOver
    /\ resps = <<429, 0, 404>>
    /\ waits = <<RateLimitBase, 2 * ErrorBackoffBase>>

\* a make_request call has returned
V2CallOver == v_pc # "request"

\* C10: in make_request a non-2xx response (404, 500) ends the call at once
\* with the failure value: it is the last request of the call and no backoff
\* wait follows it.
C10_HttpErrorNotRetried ==
    \A k \in 1..Len(v_resps) :
        v_resps[k] \in {404, 500} =>
            /\ k = Len(v_resps)
            /\ V2CallOver
            /\ v_soup = NoSoup
            /\ Len(v_waits) = k - 1

\* C11: when every attempt of a search raises, 3 requests are issued, the wait
\* after the failed attempt a is 2*(a+1) s for every attempt but the last, no
\* wait follows the last attempt, and the call returns the failure value.
C11_ExceptionBackoff ==
    (resps # <<>> /\ AllRaised(resps)) =>
        /\ \A a \in 0..(Len(waits) - 1) : waits[a + 1] = ErrorBackoffBase * (a + 1)
        /\ Len(waits) = Min(requests, max_retries - 1)
        /\ SearchOver =>
            /\ requests = max_retries
            /\ Len(waits) = max_retries - 1
            /\ price_data = 0

C11_Witness ==
    /\ SearchOver
    /\ resps = <<0, 0, 0>>
    /\ waits = <<ErrorBackoffBase, 2 * ErrorBackoffBase>>

\* the sum of a sequence of numbers
RECURSIVE SumSeq(_)
SumSeq(q) == IF q = <<>> THEN 0 ELSE q[1] + SumSeq(Tail(q))

\* the backoff series of the rate limit over the attempts 0 .. n-1, in ticks
RECURSIVE BackoffSeries(_)
BackoffSeries(n) ==
    IF n = 0 THEN 0 ELSE BackoffSeries(n - 1) + Pow2(n - 1) * RateLimitBase

\* C12: a search ends whatever the responses are: 429s and exceptions draw on
\* one attempt budget, so a call issues at most 3 requests (a pending call has
\* issued fewer than 3 and every pass either returns or uses one attempt up),
\* and the waits of one call add up to at most 2 + 4 + 8 s.
C12_SearchBounded ==
    /\ requests <= max_retries
    /\ Len(resps) = requests
    /\ pc = "request" => (retry = requests /\ retry < max_retries)
    /\ Len(waits) <= requests
    /\ SumSeq(waits) <= BackoffSeries(max_retries)

\* an exception, then two 429s: the three attempts of one budget, and the
\* longest wait a call can have
C12_Witness ==
    /\ SearchOver
    /\ resps = <<0, 429, 429>>
    /\ SumSeq(waits) = BackoffSeries(max_retries)
    /\ price_data = 0

\* a step of run_update keeps the rows of the ledger and column B of every
\* row; a row changes only in the flush, and then it is the row the result
\* was read from, whose identifier is the one that was searched
LedgerFrame ==
    /\ Len(ledger') = Len(ledger)
    /\ \A r \in 1..Len(ledger) :
        /\ ledger'[r].B = ledger[r].B
        /\ ledger'[r] # ledger[r] =>
            /\ pc = "flush"
            /\ r = results[wpos + 1].row_index
            /\ ledger[r].B = results[wpos + 1].jan_code

\* the same for a step of MorimoriPriceScraperV2.run on its open worksheet
WorksheetFrame ==
    v_pc # "off" =>
        /\ Len(v_sheet') = Len(v_sheet)
        /\ \A r \in 1..Len(v_sheet) :
            /\ v_sheet'[r].B = v_sheet[r].B
            /\ v_sheet'[r] # v_sheet[r] =>
                /\ v_pc = "update"
                /\ r = v_jan_codes[v_pos].row
                /\ Strip(v_sheet[r].B) = v_jan_codes[v_pos].jan_code

\* C13: every write of run_update and of MorimoriPriceScraperV2.update_spreadsheet
\* changes only the cells C, D, E of the row whose identifier produced the
\* result; column B and every other row stay as they were, over any sequence
\* of runs.
C13_LedgerFrame == [][LedgerFrame /\ WorksheetFrame]_vars

\* the second run has written row 3 again; row 2, whose identifier is too
\* short, is as it was
C13_Witness ==
    /\ runs = 2
    /\ pc = "checkpoint"
    /\ ledger[2] = Row("12345")
    /\ ledger[3].B = "4901234567894"
    /\ ledger[3].C = price_value(9800)
    /\ ledger[3].E = "4901234567894"
    /\ Len(writes) = 1
    /\ writes[1].ok

\* the items of this run that have a write call, and those whose every write
\* call failed
Written == {writes[k].index : k \in 1..Len(writes)}

Unwritten == {idx \in Written : \A k \in WritesOf(idx) : ~writes[k].ok}

\* C14: when the flush of a batch is over, an item whose row write failed has
\* had that write issued once more (two update_sheet_data calls, the retry
\* after the cooldown), an item whose write succeeded has had one, and an item
\* whose write failed both times is counted in error_count next to the items
\* without a price.
C14_WriteRetriedOnce ==
    pc = "checkpoint" =>
        /\ \A idx \in Written :
            LET first == CHOOSE k \in WritesOf(idx) : \A j \in WritesOf(idx) : k <= j
            IN Cardinality(WritesOf(idx)) = IF writes[first].ok THEN 1 ELSE 2
        /\ progress.error_count >=
              Cardinality({idx \in Written :
                             \/ idx \in Unwritten
                             \/ \E k \in WritesOf(idx) : writes[k].cell = <<"-">>})

\* C15: in the all-rows updater a row whose write failed, and failed again on
\* its retry, does not stop the run: when update_spreadsheet has ended, every
\* qualifying row of the worksheet has been looked up and has had its write
\* issued.
C15_WriteFailureDoesNotStop ==
    (p_pc = "ended" /\ p_sheet # <<>>) =>
        \A r \in 2..Len(p_sheet) :
            PsQualifies(p_sheet[r]) =>
                /\ \E j \in 1..Len(p_looked) : p_looked[j] = r
                /\ \E k \in 1..Len(p_calls) : p_calls[k].row = r

\* the price cell cell is the yen glyph followed by the digits of a number > 0
IsPriceCell(cell) ==
    /\ Len(cell) >= 2
    /\ cell[1] = "YEN"
    /\ \E pg \in SearchPages : \E k \in 1..Len(pg) :
          pg[k].n > 0 /\ cell = <<"YEN">> \o Thousands(pg[k].n)

\* the items of this run whose row was written with a price
PricedRows ==
    {idx \in Written : \E k \in WritesOf(idx) : writes[k].ok /\ IsPriceCell(writes[k].cell)}

\* C16: success_count counts exactly the items whose extraction found a
\* positive price: every price cell run_update writes is the yen glyph with a
\* number > 0 or the failure marker "-", and when run_update has left its loop
\* and returned (all items done, or the time limit) success_count equals the
\* number of rows written with a price.
C16_SuccessCountsPricedRows ==
    /\ \A k \in 1..Len(writes) :
          IsPriceCell(writes[k].cell) \/ writes[k].cell = <<"-">>
    /\ (Returned /\ outcome \in {"completed", "time_limit"}) =>
          progress.success_count = Cardinality(PricedRows)

\* run_update takes the result of the search that has just returned
TakesResult == pc = "got" /\ pc' \in {"delay", "flush"}

\* the search that has just returned ended on a page that was fetched
PageFetched == resps # <<>> /\ resps[Len(resps)] = 200

\* C17: an item whose page was fetched (status 200) is not counted as an
\* error, whether the page has a price or not; error_count goes up by one
\* exactly for an item whose search ended without a page (another status, the
\* rate limit used up, an exception).
C17_NotFoundIsNotAnError ==
    [][TakesResult =>
         progress'.error_count =
            progress.error_count + (IF PageFetched THEN 0 ELSE 1)]_vars

\* C18: the Excel updater never puts a price <= 0 into a price cell: every
\* value it sets is > 0, and every price cell of the workbook, in memory and
\* on disk, is empty or > 0; a price text that parses to 0 leaves the row as
\* it was.
C18_NoNonPositivePrice ==
    /\ \A k \in 1..Len(x_sets) : x_sets[k].value > 0
    /\ \A r \in 1..Len(x_book) : x_book[r].G = None \/ x_book[r].G > 0
    /\ \A r \in 1..Len(x_file) : x_file[r].G = None \/ x_file[r].G > 0

\* a batch has just been started: the loop head cut it out and no item of it
\* has been searched yet
BatchStarted == pc = "item" /\ results = <<>>

\* C19: a batch is started only while items remain and the time elapsed since
\* the start of the run is strictly less than max_execution_time; at an
\* elapsed time equal to the limit, or above it, no batch is started.
C19_BatchOnlyBelowLimit ==
    BatchStarted =>
        /\ current_index < Len(valid_items)
        /\ clock - start_time < config.max_execution_time

\* run_update has selected its work items from the ledger it read
Selected ==
    \/ Running /\ pc # "read"
    \/ Returned /\ outcome # "no_data"

\* row r of the ledger has an identifier of 10 characters or more
Qualifies(r) == ledger[r].B # "" /\ Len(ledger[r].B) >= MinJanLen

ItemRows == {valid_items[i].row_index : i \in 1..Len(valid_items)}

\* C20: row 1 of the ledger is never a work item; every work item stands for
\* a data row whose identifier is non-empty and has 10 characters or more,
\* with that row's 1-based number as row_index and its identifier as jan_code;
\* the work items are in ledger order; and every such row is a work item (a
\* row is left out only behind the max_items cap, when the items before it
\* fill the cap).
C20_WorkItemSelection ==
    Selected =>
        /\ 1 \notin ItemRows
        /\ \A i \in 1..Len(valid_items) :
            /\ valid_items[i].row_index \in 2..Len(ledger)
            /\ Qualifies(valid_items[i].row_index)
            /\ valid_items[i].jan_code = ledger[valid_items[i].row_index].B
        /\ \A i, j \in 1..Len(valid_items) :
            i < j => valid_items[i].row_index < valid_items[j].row_index
        /\ \A r \in 2..Len(ledger) :
            (Qualifies(r) /\ r \notin ItemRows) =>
                /\ max_items \notin {None, 0}
                /\ Len(valid_items) = max_items
                /\ \A i \in 1..Len(valid_items) : valid_items[i].row_index < r

\* the header is 11 characters long, row 2 has a short identifier, row 3 a
\* JAN code: row 3 is the only work item
C20_Witness ==
    /\ Selected
    /\ max_items = None
    /\ Len(ledger[1].B) >= MinJanLen
    /\ ledger[2].B = "12345"
    /\ ledger[3].B = "4901234567894"
    /\ valid_items = <<[row_index |-> 3, jan_code |-> "4901234567894"]>>

\* scrape_price turns to the detail page
TakesHop == v_target = "search" /\ v_target' = "detail"

\* scrape_price has the detail page, or the failure of its request, in hand
DetailInHand == v_target = "detail" /\ v_pc = "page"

\* C21: the detail page is requested only after the search page was fetched
\* and had no price (and it is the first product link of that page); once
\* the detail page is in hand scrape_price returns, whatever links the page
\* has, so nothing is requested for the item after it; an item has at most 2
\* pages fetched.
C21_OneDetailHop ==
    [][/\ TakesHop =>
            /\ v_pc = "page"
            /\ v_soup # NoSoup
            /\ v_soup.page.price = ""
            /\ v_soup.page.link
            /\ v_pages = 1
       /\ DetailInHand => (v_pc' = "update" /\ v_target' = "detail")
       /\ v_pages' <= 2]_vars

\* the detail page was fetched; it has no price and has a product link, which
\* is not followed
C21_Witness ==
    /\ v_pc = "update"
    /\ v_target = "detail"
    /\ v_pages = 2
    /\ v_soup # NoSoup
    /\ v_soup.page.price = ""
    /\ v_soup.page.link
    /\ ~v_result.found

\* the price of phrase e is a ceiling (JOGEN stands before it) or belongs to
\* a range (the range dash stands before or after it)
CeilingOrRange(e) == e.mid \in {"JOGEN", "NAMI"} \/ e.tail = "NAMI"

\* phrase e is a label-anchored price: one of the patterns matches it
Anchored(e) == \E p \in 1..Len(Patterns) : Matches(p, e)

\* phrase e quotes a price: anchored, no ceiling, no range, a positive number
Quoted(e) == Anchored(e) /\ ~CeilingOrRange(e) /\ e.n > 0

\* the first match of some pattern is phrase k of the page and is disqualified
FirstMatchRejected(page, k) ==
    \E p \in 1..Len(Patterns) : FirstMatch(p, page) = k /\ Disqualified(p, page[k])

\* C22: a price parse_search_results returns is the price of a phrase that is
\* neither a ceiling nor part of a range; and when the first match of a
\* pattern is disqualified and a later phrase of the page quotes a price, a
\* price is returned (not None).
C22_NoCeilingNoRange ==
    f_pc = "returned" =>
        /\ f_out # 0 =>
              \E k \in 1..Len(f_in) : f_in[k].n = f_out /\ ~CeilingOrRange(f_in[k])
        /\ (\E k \in 1..Len(f_in) :
               /\ FirstMatchRejected(f_in, k)
               /\ \E j \in (k + 1)..Len(f_in) : Quoted(f_in[j])) => f_out # 0

\* C23: a positive price formatted with thousands separators and a currency
\* marker (the glyph before it or the unit word after it) and parsed again,
\* by parse_price and by the parse step of parse_search_results, is the
\* price that was formatted.
C23_PriceRoundTrip ==
    f_pc = "read" =>
        /\ f_in.n > 0
        /\ f_out.parse_price = f_in.n
        /\ f_out.price = f_in.n

C23_Witness ==
    /\ f_pc = "read"
    /\ f_in.n = 1000005
    /\ f_in.writer = "FormatEn"
    /\ f_out.text = <<"1", ",", "0", "0", "0", ",", "0", "0", "5", "EN">>
    /\ f_out.parse_price = 1000005

\* the prices of a list that lie in 10,000..5,000,000
InBandOf(prices) ==
    { prices[k] : k \in { j \in 1..Len(prices) : prices[j] >= 10000 /\ prices[j] <= 5000000 } }

\* the largest number of a non-empty set
Largest(S) == CHOOSE v \in S : \A w \in S : w <= v

\* C24: the price search_and_get_price selects on a result page is the
\* largest in-band price followed by the unit word when there is one,
\* otherwise the largest in-band price preceded by the glyph; when no price
\* is in band the no-price marker is returned, never a number out of band.
C24_MaxInBand ==
    f_pc = "selected" =>
        LET S == InBandOf(f_in.suffixed)
            P == InBandOf(f_in.prefixed)
        IN /\ (S # {}) => f_out = <<"YEN">> \o Thousands(Largest(S))
           /\ (S = {} /\ P # {}) => f_out = <<"YEN">> \o Thousands(Largest(P))
           /\ (S = {} /\ P = {}) => f_out = KakakuNashi
           /\ f_out # KakakuNashi =>
                 parse_price(f_out) >= 10000 /\ parse_price(f_out) <= 5000000

C24_Witness ==
    /\ f_pc = "selected"
    /\ f_in.suffixed = <<9800, 5000001>>
    /\ f_in.prefixed = <<10000, 15000>>
    /\ f_out = <<"YEN", "1", "5", ",", "0", "0", "0">>

\* the write calls issued for the batch at hand (its items are
\* current_index .. batch_end - 1)
BatchWrites == {k \in 1..Len(writes) : writes[k].index >= current_index}

\* C25: when the flush of a batch is over, one ledger write call has been
\* issued for the batch, however many items it has.
C25_OneWritePerBatch ==
    pc = "checkpoint" => Cardinality(BatchWrites) = 1

\* every item of the batch at hand has been fetched and has its result
BatchFetched ==
    /\ Len(results) = batch_end - current_index
    /\ \A i \in current_index..(batch_end - 1) : i \in FetchedSet

\* the step is a write call: the next item of the batch, in item order,
\* with the progress and progress.json left as they were
WriteInOrder ==
    /\ pc = "flush"
    /\ Len(writes') = Len(writes) + 1
    /\ writes'[Len(writes')].index = current_index + wpos
    /\ wpos' = wpos + 1
    /\ progress' = progress
    /\ persisted' = persisted

\* the step is a step of run_update (the process is not ended by it)
RunStep == Running /\ pc' # "new"

\* C26: in every batch all items are fetched before the first write, the
\* writes go item by item in item order, and current_index moves to the batch
\* end and is saved only when the last write of the batch has returned; a
\* save at any other place carries the index of the batch start.
C26_FlushThenCheckpoint ==
    [][/\ pc' \in {"flush", "checkpoint"} => BatchFetched'
       /\ (RunStep /\ pc = "flush") => WriteInOrder
       /\ Len(writes') > Len(writes) => WriteInOrder
       /\ (RunStep /\ pc = "checkpoint") =>
            /\ wpos = batch_end - current_index
            /\ \A i \in current_index..(batch_end - 1) : WritesOf(i) # {}
            /\ current_index' = batch_end
            /\ persisted' = save_progress(progress')
            /\ persisted'.progress.current_index = batch_end
       /\ (RunStep /\ pc # "checkpoint") =>
            /\ progress'.current_index = progress.current_index
            /\ current_index' = current_index
            /\ persisted' # persisted =>
                  persisted'.progress.current_index = current_index
      ]_vars

C26_Witness ==
    /\ pc = "loop"
    /\ config.batch_size = 2
    /\ current_index = 2
    /\ Len(fetched) = 2
    /\ Len(writes) = 2
    /\ writes[1].index = 0
    /\ writes[2].index = 1
    /\ persisted.exists
    /\ persisted.progress.current_index = 2

\* a batch is being worked on
InBatch == pc \in {"item", "request", "got", "delay", "flush", "checkpoint"}

\* C27: within one run the items are fetched in ledger order, each once,
\* none skipped; every row gets one write call at most, in the same order;
\* the batches are contiguous slices of batch_size items (the last one may
\* be shorter).
C27_OncePerItemInOrder ==
    InRun =>
        /\ \A j \in 1..Len(fetched) : fetched[j] = j - 1
        /\ Len(fetched) <= Len(valid_items)
        /\ \A k \in 1..Len(writes) :
              /\ writes[k].index = k - 1
              /\ writes[k].row = valid_items[k].row_index
        /\ Len(writes) <= Len(fetched)
        /\ \A i, j \in 1..Len(valid_items) :
              i < j => valid_items[i].row_index < valid_items[j].row_index
        /\ InBatch =>
              /\ current_index % config.batch_size = 0
              /\ batch_end = Min(current_index + config.batch_size, Len(valid_items))
              /\ current_index <= Len(fetched)
              /\ Len(fetched) <= batch_end
              /\ Len(writes) >= current_index

C27_Witness ==
    /\ pc = "loop"
    /\ config.batch_size = 1
    /\ current_index = 2
    /\ fetched = <<0, 1>>
    /\ Len(writes) = 2
    /\ writes[1].row = 2
    /\ writes[2].row = 3

\* the time run_update has been running
Elapsed == clock - start_time

\* every item of the batch at hand has its write call
BatchWritten == \A i \in current_index..(batch_end - 1) : WritesOf(i) # {}

\* C28: the time limit is looked at only at the head of the batch loop: a
\* batch is started only while the elapsed time is within the limit, and a
\* batch that was started is left only through its checkpoint, with every
\* item fetched and written, however much time has passed meanwhile (only an
\* exception, which ends the run in the handler, leaves a batch earlier).
C28_NoMidBatchPreemption ==
    [][/\ (stopped' /\ ~stopped) => (pc = "loop" /\ Elapsed > config.max_execution_time)
       /\ (pc = "loop" /\ pc' = "item") => Elapsed <= config.max_execution_time
       /\ (RunStep /\ InBatch /\ ~InBatch') =>
            \/ pc' = "except"
            \/ pc = "checkpoint" /\ BatchFetched /\ BatchWritten
       /\ (RunStep /\ InBatch /\ InBatch') =>
            (batch_end' = batch_end /\ current_index' = current_index)
      ]_vars

\* the limit has passed before the flush of a batch of two began
C28_Witness ==
    /\ pc = "checkpoint"
    /\ config.batch_size = 2
    /\ current_index = 0
    /\ batch_end = 2
    /\ Elapsed > config.max_execution_time + 2 * WriteSleep
    /\ fetched = <<0, 1>>
    /\ Len(writes) = 2

\* the items of this run whose result has been appended and counted
ItemsDone == Len(fetched) - (IF pc \in {"request", "got"} THEN 1 ELSE 0)

\* C29: from the start reset on, processed_count = success_count +
\* error_count, processed_count <= total_count, current_index <=
\* processed_count, with equality right after a checkpoint; the counters
\* count the items of this run only, whatever the progress file held.
C29_CounterInvariants ==
    InRun =>
        /\ progress.processed_count = progress.success_count + progress.error_count
        /\ progress.processed_count <= progress.total_count
        /\ progress.current_index <= progress.processed_count
        /\ progress.processed_count = ItemsDone
        /\ progress.current_index = current_index
        /\ progress.success_count >= 0 /\ progress.error_count >= 0
        /\ pc = "loop" => progress.current_index = progress.processed_count

C29_Witness ==
    /\ pc = "flush"
    /\ runs = 2
    /\ persisted.exists
    /\ persisted.progress.processed_count = 2
    /\ persisted.progress.success_count = 2
    /\ progress.processed_count = 1
    /\ progress.success_count = 0
    /\ progress.error_count = 1
    /\ progress.current_index = 0

\* C30: while a run is active and the progress in memory says is_running,
\* completion_rate is current_index / total_count * 100 of this run and lies
\* in 0..100; no value of an earlier run is shown.
C30_RateOfThisRun ==
    (Running /\ progress.is_running) =>
        /\ progress.completion_rate >= 0
        /\ progress.completion_rate <= 100
        /\ progress.total_count > 0 =>
              progress.completion_rate = Rate(progress.current_index, progress.total_count)
        /\ progress.total_count = 0 => progress.completion_rate = 0

\* C31: from the moment run_update has marked the run as running until it
\* returns, progress.json shows is_running = true, so that a second program
\* loading it during the run (its first batch included) sees a run going on.
C31_GuardVisible ==
    (Running /\ progress.is_running) =>
        (persisted.exists /\ persisted.progress.is_running)

\* the qualifying rows of the ledger as run_update read it
QualifyingRows == ValidItems(TrimRows(ledger), 2)

\* C32: run_update called with max_items = m, an integer m >= 0, works on
\* the first m qualifying rows at most, and total_count is the smaller of m
\* and the number of qualifying rows.
C32_MaxItemsCap ==
    (InBatch /\ max_items # None) =>
        /\ max_items >= 0
        /\ Len(valid_items) = Min(max_items, Len(QualifyingRows))
        /\ valid_items = SubSeq(QualifyingRows, 1, Len(valid_items))
        /\ progress.total_count = Len(valid_items)
        /\ Len(fetched) <= max_items

\* the iterations of the batch loop begun so far in this run, the one at
\* hand included
Iterations == (current_index \div config.batch_size) + 1

\* ceil(len(valid_items) / batch_size)
MaxIterations == (Len(valid_items) + config.batch_size - 1) \div config.batch_size

\* C33: with batch_size >= 1 every iteration of the batch loop moves
\* current_index forward by 1..batch_size and nothing else moves it, so no
\* more than ceil(total_count / batch_size) iterations are begun; and
\* run_update, once called, comes to its end.
C33_Terminates ==
    /\ [][/\ (RunStep /\ pc = "checkpoint") =>
              /\ current_index' > current_index
              /\ current_index' <= current_index + config.batch_size
              /\ current_index' <= Len(valid_items)
          /\ (RunStep /\ pc # "checkpoint" /\ pc # "read") =>
              current_index' = current_index
          /\ InBatch' => (config.batch_size >= 1 /\ Iterations' <= MaxIterations')
         ]_vars
    /\ (Running ~> ~Running)

C33_Witness ==
    /\ pc = "returned"
    /\ outcome = "completed"
    /\ config.batch_size = 1
    /\ Len(valid_items) = 2
    /\ current_index = 2
    /\ Len(writes) = 2

\* the rows of the worksheet below the header whose identifier cell holds an
\* identifier (not empty, not blanks only)
IdRows == {i \in 2..Len(v_sheet) : v_sheet[i].B \notin {"", " "}}

\* the rows run has updated so far
UpdatedRows == {v_updates[k].row : k \in 1..Len(v_updates)}

\* the update calls that wrote a price
PriceUpdates == {k \in 1..Len(v_updates) : v_updates[k].price # "FAILED"}

\* C34: run calls update_spreadsheet once for every identifier row, in row
\* order: with the price and the URL of the page it was found on, or with the
\* failure marker and the search URL; success_count and fail_count count
\* these calls, and at the end their sum is the number of identifier rows,
\* whether the update calls succeeded or not.
C34_OneUpdatePerRow ==
    v_pc \in {"scrape", "request", "page", "update", "done"} =>
        /\ \A k \in 1..Len(v_updates) :
              /\ v_updates[k].row \in IdRows
              /\ \A j \in 1..(k - 1) : v_updates[j].row < v_updates[k].row
              /\ \/ v_updates[k].price = "FAILED" /\ v_updates[k].url = "search"
                 \/ v_updates[k].price = "9800" /\ v_updates[k].url \in {"search", "detail"}
        /\ v_success = Cardinality(PriceUpdates)
        /\ v_success + v_fail = Len(v_updates)
        /\ v_pc = "done" =>
              /\ UpdatedRows = IdRows
              /\ v_success + v_fail = Cardinality(IdRows)

C34_Witness ==
    /\ v_pc = "done"
    /\ Len(v_updates) = 2
    /\ ~v_updates[1].ok
    /\ v_updates[1].price = "FAILED"
    /\ v_updates[2].price = "9800"
    /\ v_updates[2].url = "detail"
    /\ v_success = 1
    /\ v_fail = 1

\* the workbook is open: load_workbook has returned
ExOpened == x_pc \in {"row", "search", "set", "save", "done", "raised", "interrupted"}
            /\ x_book # <<>>

\* the rows for which a product was found
ExFoundRows == {x_sets[k].row : k \in 1..Len(x_sets)}

\* C35: the Excel updater looks up only rows whose identifier cell holds an
\* identifier; it never changes an identifier cell; a row without an
\* identifier and a row whose lookup finds no product keep their price and
\* date cells; only the price and date cells of a row with a found product
\* change, at the moment the product is at hand.
C35_ExcelFrame ==
    [][/\ x_pc' = "search" => x_book'[x_row'].H \notin {"", " "}
       /\ x_pc # "off" =>
            /\ Len(x_book') = Len(x_book)
            /\ \A r \in 1..Len(x_book) :
                  /\ x_book'[r].H = x_book[r].H
                  /\ x_book'[r] # x_book[r] =>
                        /\ x_pc = "set"
                        /\ r = x_row
                        /\ x_products # <<>>
                        /\ x_book[r].H \notin {"", " "}
                        /\ x_book'[r].G = x_products[1].price
                        /\ r \in ExFoundRows'
            /\ (x_pc = "set" /\ x_products = <<>>) => x_book' = x_book
      ]_vars

\* row 2 has an identifier and no product was found, row 3 got a new price
C35_Witness ==
    /\ x_pc = "save"
    /\ Len(x_book) = 3
    /\ x_book[2] = [H |-> "4901234567894", G |-> 5000, I |-> "before"]
    /\ x_file[3] = [H |-> "4901234567894", G |-> 5000, I |-> "before"]
    /\ x_book[3] = [H |-> "4901234567894", G |-> 9800, I |-> "today"]
    /\ ExFoundRows = {3}

\* the file on disk is the workbook as it was opened: it has the rows of the
\* workbook and none of the dates this run sets
FileUntouched ==
    /\ Len(x_file) = Len(x_book)
    /\ \A r \in 1..Len(x_file) : x_file[r].H = x_book[r].H /\ x_file[r].I # "today"

\* C36: the file is written at one place only, the save after the last row,
\* reached once; until then, whether the run goes on or is interrupted, the
\* file on disk is as it was opened; when the save has returned the file is
\* the workbook, and nothing runs after the save, an exception or an
\* interrupt.
C36_SaveOnceAtEnd ==
    [][/\ (x_pc # "off" /\ x_file' # x_file) =>
            /\ x_pc = "save"
            /\ x_row > Len(x_book)
            /\ x_pc' \in {"done", "raised"}
       /\ x_pc' = "done" => (x_pc = "save" /\ x_file' = x_book)
       /\ x_pc' \in {"row", "search", "set", "save", "interrupted"} => FileUntouched'
       /\ x_pc \in {"done", "raised", "interrupted"} => UNCHANGED exvars
      ]_vars

\* interrupted after a cell was set: the file still has the old price
C36_Witness ==
    /\ x_pc = "interrupted"
    /\ Len(x_book) = 3
    /\ x_book[2].G = 9800
    /\ x_book[2].I = "today"
    /\ x_file[2].G = 5000
    /\ x_file[2].I = "before"

\* the calls of run_price_update a scheduled 09:00 has triggered
TriggeredAt(t) == {k \in 1..Len(s_runs) : s_runs[k].at = t}

\* C37: once the scheduler is started, a scheduled 09:00 triggers
\* run_price_update once at most, a Monday 09:00 included, and no two update
\* runs are under way together.
C37_OncePerOccurrence ==
    /\ s_active <= 1
    /\ \A t \in 0..MaxHalfDays : IsNine(t) => Cardinality(TriggeredAt(t)) <= 1
====
